---- MODULE Spec2Model ----
(***************************************************************************)
(* A model of lib/transformers/DataTransformer.js of                       *)
(* node-red-contrib-google-spreadsheet-plus: the conversion between        *)
(* JavaScript values (primitives, arrays, records) and the 2D cell arrays  *)
(* of the Google Sheets API.                                               *)
(*                                                                         *)
(* JavaScript values are modelled as pairs <<tag, payload>>:               *)
(*   <<"string", s>>, <<"number", s>>, <<"boolean", s>>, <<"null", s>>,    *)
(*   <<"undefined", s>>, <<"function", s>>                                 *)
(*                       a primitive or a function; s is the text          *)
(*                       String(v) gives                                   *)
(*   <<"array", e>>      e the sequence of the elements                    *)
(*   <<"object", e>>     e the sequence of the <<key, value>> entries, in  *)
(*                       the order for-in enumerates them                  *)
(* A text (a string value's content, a property key) is the sequence of    *)
(* its '.'-separated segments: "user.name" is <<"user", "name">>, "age" is *)
(* <<"age">>. `${p}.${k}` is then p \o k and split('.') the sequence       *)
(* itself.                                                                 *)
(***************************************************************************)
EXTENDS Integers, Sequences, FiniteSets, TLC

VARIABLES
    pc,              \* "call": the method op is about to run; "done": it has run
    op,              \* the method of DataTransformer to call or just called
    data,            \* transform(data, config) / extractObjectValues(obj)
    config,          \* the node's config: fields, selfields, method, line, column, direction
    setConfig,       \* the config the cells being read back were written under
    values,          \* transformGetResponse(values, config, majorDimension)
    majorDimension,
    result,          \* what the call returned
    error,           \* the error the call threw, "" when it returned
    mem,             \* the arrays by identity: heap, the arguments' and the result's references
    cell_l,          \* transformCellResponse(values, cell_l, cell_c)
    cell_c,
    range,           \* the range of the message the node handles
    saveLoc,         \* the cache storage the node's save field names
    calls,           \* the calls the node made to the remote service for the message
    spreadsheetId,   \* the spreadsheet of the message the node handles
    auth,            \* node.auth: what the node has for a service account
    sends,          \* the outputs node.send was called with for the message, in order
    status,          \* the states the node's status was set to for the message, in order
    client,          \* node.client of the service account node
    token,           \* node.token of the service account node
    now              \* Date.now()

cellVars == <<cell_l, cell_c>>
nodeVars == <<range, saveLoc, calls>>
msgVars  == <<spreadsheetId, auth, sends, status>>
authVars == <<client, token, now>>

vars == <<pc, op, data, config, setConfig, values, majorDimension, result, error, mem,
          cell_l, cell_c, range, saveLoc, calls, spreadsheetId, auth, sends, status,
          client, token, now>>

----------------------------------------------------------------------------
(* JavaScript values *)

Str(s)    == <<"string", s>>
Num(t)    == <<"number", <<t>>>>
Bool(t)   == <<"boolean", <<t>>>>
Null      == <<"null", <<"null">>>>
Undefined == <<"undefined", <<"undefined">>>>
Fn        == <<"function", <<"function () {}">>>>
Arr(e)    == <<"array", e>>
Obj(e)    == <<"object", e>>

\* The result slot of a call that has not returned: no JavaScript value.
NoValue == <<"none", <<>>>>

Tag(v)     == v[1]
Elems(v)   == v[2]
IsArray(v) == Tag(v) = "array"
IsPlainObject(v) == Tag(v) = "object"

\* typeof v
TypeOf(v) == IF Tag(v) \in {"null", "array", "object"} THEN "object" ELSE Tag(v)

Range(s) == {s[i] : i \in DOMAIN s}

\* The keys of a record, in enumeration order.
ObjKeys(o) == [i \in DOMAIN Elems(o) |-> Elems(o)[i][1]]

HasKey(o, k) == \E i \in DOMAIN Elems(o) : Elems(o)[i][1] = k

\* o[k] of a record: the value of its entry k, undefined when it has none.
ObjGet(o, k) ==
    IF HasKey(o, k)
    THEN Elems(o)[CHOOSE i \in DOMAIN Elems(o) : Elems(o)[i][1] = k][2]
    ELSE Undefined

\* o[k] = v on a record: an existing entry keeps its place, a new one is
\* enumerated last.
ObjSet(o, k, v) ==
    IF HasKey(o, k)
    THEN Obj([i \in DOMAIN Elems(o) |->
                IF Elems(o)[i][1] = k THEN <<k, v>> ELSE Elems(o)[i]])
    ELSE Obj(Append(Elems(o), <<k, v>>))

\* a + "," + b on texts.
JoinComma(a, b) ==
    SubSeq(a, 1, Len(a) - 1) \o <<a[Len(a)] \o "," \o b[1]>> \o Tail(b)

\* String(v): the text a value turns into when it is used as a property key.
\* Array.prototype.join writes null and undefined elements as "".
RECURSIVE ToText(_)
JoinElems(e) ==
    LET ElemText(x) == IF Tag(x) \in {"null", "undefined"} THEN <<"">> ELSE ToText(x)
        RECURSIVE Join(_)
        Join(i) == IF i = 1 THEN ElemText(e[1])
                   ELSE JoinComma(Join(i - 1), ElemText(e[i]))
    IN IF e = <<>> THEN <<"">> ELSE Join(Len(e))
ToText(v) ==
    CASE IsArray(v)       -> JoinElems(Elems(v))
      [] IsPlainObject(v) -> <<"[object Object]">>
      [] OTHER            -> v[2]

\* What a call does: it returns a value or throws.
Return(v) == [value |-> v, error |-> ""]
Throw(e)  == [value |-> NoValue, error |-> e]

\* a.shift() on an array's elements: the element taken off, undefined for an
\* empty array, which stays empty.
ShiftHead(e) == IF e = <<>> THEN Undefined ELSE Head(e)
ShiftRest(e) == IF e = <<>> THEN <<>> ELSE Tail(e)

\* a[i] for a 0-based i, written with the 1-based index i + 1.
At(e, i) == IF i \in DOMAIN e THEN e[i] ELSE Undefined

----------------------------------------------------------------------------
(* Arrays by identity *)

\* An array has an identity: two variables can hold the same array, and a
\* push, a shift or an assignment through one shows through the other. Where
\* that matters the arrays live in a heap, a sequence whose element a is the
\* content of the array at address a, and a value holds Ref(a) in place of an
\* array. Records are never assigned to by the code and stay values.
Ref(a)   == <<"ref", a>>
IsRef(v) == Tag(v) = "ref"
Addr(v)  == v[2]

\* No call by identity in progress.
NoMem == [heap |-> <<>>, arg |-> NoValue, fields |-> NoValue, ret |-> NoValue]

\* No lookup is asked for.
NoCell == cell_l = NoValue /\ cell_c = NoValue

\* No node is at work: no range, no storage, no call.
NoNode == range = <<>> /\ saveLoc = NoValue /\ calls = <<>>

\* No message is being told apart by its spreadsheet, sends and statuses.
NoMsg == spreadsheetId = <<>> /\ auth = "" /\ sends = <<>> /\ status = <<>>

\* No service account node is at work.
NoAuth == client = NoValue /\ token = NoValue /\ now = 0


\* new Array with the given content: the heap after, and the reference.
Alloc(h, content) == [heap |-> Append(h, content), value |-> Ref(Len(h) + 1)]

\* The value v with every array put on the heap h, the arrays it holds first.
RECURSIVE Store(_, _)
Store(h, v) ==
    LET RECURSIVE Items(_)
        \* the first n elements (or entry values) stored, one after the other
        Items(n) ==
            IF n = 0 THEN [heap |-> h, items |-> <<>>]
            ELSE LET p == Items(n - 1)
                     x == IF IsArray(v) THEN Elems(v)[n] ELSE Elems(v)[n][2]
                     q == Store(p.heap, x)
                 IN  [heap  |-> q.heap,
                      items |-> Append(p.items,
                                       IF IsArray(v) THEN q.value
                                       ELSE <<Elems(v)[n][1], q.value>>)]
    IN  IF IsArray(v)
        THEN Alloc(Items(Len(Elems(v))).heap, Items(Len(Elems(v))).items)
        ELSE IF IsPlainObject(v)
        THEN [heap |-> Items(Len(Elems(v))).heap, value |-> Obj(Items(Len(Elems(v))).items)]
        ELSE [heap |-> h, value |-> v]

\* The value a reference value stands for on the heap h.
RECURSIVE Deref(_, _)
Deref(h, v) ==
    IF IsRef(v) THEN Arr([i \in DOMAIN h[Addr(v)] |-> Deref(h, h[Addr(v)][i])])
    ELSE IF IsPlainObject(v)
    THEN Obj([i \in DOMAIN Elems(v) |-> <<Elems(v)[i][1], Deref(h, Elems(v)[i][2])>>])
    ELSE v

\* The addresses of the arrays a reference value holds, at any depth.
RECURSIVE Reach(_, _)
Reach(h, v) ==
    IF IsRef(v)
    THEN {Addr(v)} \cup UNION {Reach(h, h[Addr(v)][i]) : i \in DOMAIN h[Addr(v)]}
    ELSE IF IsPlainObject(v)
    THEN UNION {Reach(h, Elems(v)[i][2]) : i \in DOMAIN Elems(v)}
    ELSE {}

\* The heap h with the array at address a given the content c.
Write(h, a, c) == [h EXCEPT ![a] = c]

----------------------------------------------------------------------------
(* Flattening: extractObjectValues *)

\* The key of the array index i (0-based).
IndexKey(i) == <<CASE i = 0 -> "0" [] i = 1 -> "1" [] i = 2 -> "2" [] i = 3 -> "3"
                   [] i = 4 -> "4" [] OTHER -> "5">>

\* for (const key in v), with v[key]: the entries of a record, the indexed
\* elements of an array, the characters of a string (the strings of the model
\* have one character); nothing for any other value.
ForIn(v) ==
    CASE IsPlainObject(v)  -> Elems(v)
      [] IsArray(v)        -> [i \in DOMAIN Elems(v) |-> <<IndexKey(i - 1), Elems(v)[i]>>]
      [] Tag(v) = "string" -> IF v[2] = <<"">> THEN <<>> ELSE <<<<IndexKey(0), v>>>>
      [] OTHER             -> <<>>

\* v.length === undefined, for a v with typeof v === 'object' that is not null.
LengthUndefined(v) ==
    IF IsArray(v) THEN FALSE ELSE ObjGet(v, <<"length">>) = Undefined

\* The test of line 174: the value is walked into rather than stored.
IsNestedObject(v) == TypeOf(v) = "object" /\ v # Null /\ LengthUndefined(v)

\* The empty string '' is the only falsy text.
TruthyText(t) == t # <<"">>

\* extractObjectValues without the prefix: a nested leaf is stored under its
\* own name alone.
extractObjectValues_NoPrefix(obj) ==
    LET RECURSIVE extract(_, _, _)
        extract(acc, current, prefix) ==
            LET entries == ForIn(current)
                RECURSIVE Walk(_)
                Walk(n) ==
                    IF n = 0 THEN acc
                    ELSE LET a       == Walk(n - 1)
                             key     == entries[n][1]
                             fullKey == key
                         IN  IF IsNestedObject(entries[n][2])
                             THEN extract(a, entries[n][2], fullKey)
                             ELSE [keys   |-> Append(a.keys, fullKey),
                                   values |-> Append(a.values, entries[n][2])]
            IN Walk(Len(entries))
    IN extract([keys |-> <<>>, values |-> <<>>], obj, <<"">>)

\* extractObjectValues(obj): extract(current, prefix) visits the entries of
\* current in order; a nested object is walked with the entry's full key as
\* prefix, any other value is pushed with its full key.
extractObjectValues(obj) ==
    LET RECURSIVE extract(_, _, _)
        extract(acc, current, prefix) ==
            LET entries == ForIn(current)
                RECURSIVE Walk(_)
                Walk(n) ==
                    IF n = 0 THEN acc
                    ELSE LET a       == Walk(n - 1)
                             key     == entries[n][1]
                             fullKey == IF TruthyText(prefix) THEN prefix \o key ELSE key
                         IN  IF IsNestedObject(entries[n][2])
                             THEN extract(a, entries[n][2], fullKey)
                             ELSE [keys   |-> Append(a.keys, fullKey),
                                   values |-> Append(a.values, entries[n][2])]
            IN Walk(Len(entries))
    IN extract([keys |-> <<>>, values |-> <<>>], obj, <<"">>)

----------------------------------------------------------------------------
(* Writing: transform and its helpers *)

\* The texts of a list as string cells.
TextCells(ts) == [i \in DOMAIN ts |-> Str(ts[i])]

\* a.indexOf(x): the 0-based index of the first element equal to x, -1 when
\* there is none.
IndexOf(a, x) ==
    IF \E i \in DOMAIN a : a[i] = x
    THEN (CHOOSE i \in DOMAIN a : a[i] = x /\ \A j \in 1..(i - 1) : a[j] # x) - 1
    ELSE -1

\* const fields of transform: the list selfields when its first element is
\* truthy, undefined otherwise. A truthy list is not empty, so the empty list
\* stands for undefined.
SelectedFields(cfg) ==
    IF cfg.selfields # <<>> /\ TruthyText(cfg.selfields[1]) THEN cfg.selfields ELSE <<>>

\* The row of the selected fields (lines 69-73 and 119-123): for each field
\* in turn, the value at the index of the field among the extracted keys,
\* nothing when the keys do not hold the field.
SelectRow(extracted, fields) ==
    LET RECURSIVE Pick(_)
        Pick(n) ==
            IF n = 0 THEN <<>>
            ELSE LET i == IndexOf(extracted.keys, fields[n])
                 IN  IF i > -1 THEN Append(Pick(n - 1), extracted.values[i + 1])
                     ELSE Pick(n - 1)
    IN Pick(Len(fields))

\* transformArrayOfObjects that puts the header row whenever line is set,
\* whatever the method.
transformArrayOfObjects_HeaderAnyMethod(rows, cfg, fields) ==
    IF cfg.fields = "all"
    THEN LET body   == [i \in DOMAIN rows |-> Arr(extractObjectValues(rows[i]).values)]
             header == Arr(TextCells(extractObjectValues(rows[1]).keys))
         IN  Arr(IF cfg.line THEN <<header>> \o body ELSE body)
    ELSE IF fields # <<>>
    THEN LET body == [i \in DOMAIN rows |->
                        Arr(SelectRow(extractObjectValues(rows[i]), fields))]
         IN  Arr(IF cfg.line THEN <<Arr(TextCells(fields))>> \o body ELSE body)
    ELSE Arr(<<>>)

\* transformArrayOfObjects that fills the place of a field the record does
\* not have with undefined.
transformArrayOfObjects_PadsAbsent(rows, cfg, fields) ==
    IF cfg.fields = "all"
    THEN LET body   == [i \in DOMAIN rows |-> Arr(extractObjectValues(rows[i]).values)]
             header == Arr(TextCells(extractObjectValues(rows[1]).keys))
         IN  Arr(IF cfg.method = "new" /\ cfg.line THEN <<header>> \o body ELSE body)
    ELSE IF fields # <<>>
    THEN LET body == [i \in DOMAIN rows |->
                        LET x == extractObjectValues(rows[i])
                        IN  Arr([k \in DOMAIN fields |->
                                   IF IndexOf(x.keys, fields[k]) > -1
                                   THEN x.values[IndexOf(x.keys, fields[k]) + 1]
                                   ELSE Undefined])]
         IN  Arr(IF cfg.method = "new" /\ cfg.line
                 THEN <<Arr(TextCells(fields))>> \o body ELSE body)
    ELSE Arr(<<>>)

\* transformArrayOfObjects(rows, config, fields): one row per element, of all
\* its extracted values or of the selected ones; the header row goes first
\* when method is 'new' and line is set; nothing at all when fields is
\* neither 'all' nor a list.
transformArrayOfObjects(rows, cfg, fields) ==
    IF cfg.fields = "all"
    THEN LET body   == [i \in DOMAIN rows |-> Arr(extractObjectValues(rows[i]).values)]
             header == Arr(TextCells(extractObjectValues(rows[1]).keys))
         IN  Arr(IF cfg.method = "new" /\ cfg.line THEN <<header>> \o body ELSE body)
    ELSE IF fields # <<>>
    THEN LET body == [i \in DOMAIN rows |->
                        Arr(SelectRow(extractObjectValues(rows[i]), fields))]
         IN  Arr(IF cfg.method = "new" /\ cfg.line
                 THEN <<Arr(TextCells(fields))>> \o body ELSE body)
    ELSE Arr(<<>>)

\* addColumnLabels that starts at row 0 even under a header row.
addColumnLabels_NoShift(vals, labels, hasLineHeaders) ==
    [i \in DOMAIN vals |->
        IF i \in DOMAIN labels
        THEN Arr(<<Str(labels[i])>> \o Elems(vals[i]))
        ELSE vals[i]]

\* addColumnLabels(values, labels, hasLineHeaders): the rows with their labels
\* put first; under a header row the header gets 'Elements' and label i goes
\* to row i + 1.
addColumnLabels(vals, labels, hasLineHeaders) ==
    IF hasLineHeaders
    THEN [i \in DOMAIN vals |->
            IF i = 1 THEN Arr(<<Str(<<"Elements">>)>> \o Elems(vals[1]))
            ELSE IF (i - 1) \in DOMAIN labels
            THEN Arr(<<Str(labels[i - 1])>> \o Elems(vals[i]))
            ELSE vals[i]]
    ELSE [i \in DOMAIN vals |->
            IF i \in DOMAIN labels
            THEN Arr(<<Str(labels[i])>> \o Elems(vals[i]))
            ELSE vals[i]]

\* transformObjectOfObjects(data, config, fields): one row per entry, and,
\* only when method is 'new', the header row and the labels.
transformObjectOfObjects(obj, cfg, fields) ==
    LET entries == ForIn(obj)
        labels  == [i \in DOMAIN entries |-> entries[i][1]]
        first   == IF labels = <<>> THEN Undefined ELSE ObjGet(obj, labels[1])
        Headed(body, header) ==
            IF cfg.method = "new"
            THEN LET withLine == IF cfg.line THEN <<header>> \o body ELSE body
                 IN  IF cfg.column THEN addColumnLabels(withLine, labels, cfg.line)
                     ELSE withLine
            ELSE body
    IN  IF cfg.fields = "all"
        THEN Arr(Headed([i \in DOMAIN entries |->
                            Arr(extractObjectValues(entries[i][2]).values)],
                        Arr(TextCells(extractObjectValues(first).keys))))
        ELSE IF fields # <<>>
        THEN Arr(Headed([i \in DOMAIN entries |->
                            Arr(SelectRow(extractObjectValues(entries[i][2]), fields))],
                        Arr(TextCells(fields))))
        ELSE Arr(<<>>)

\* transform that takes the one-element branch before the array-of-arrays
\* one.
transform_SingleFirst(d, cfg) ==
    IF IsArray(d) /\ Len(Elems(d)) = 1
    THEN Return(Arr(<<Arr(<<Elems(d)[1]>>)>>))
    ELSE IF d # Null /\ d # Undefined /\ TypeOf(d) # "object"
    THEN Return(Arr(<<Arr(<<d>>)>>))
    ELSE IF IsArray(d) /\ Len(Elems(d)) > 0 /\ IsArray(Elems(d)[1])
    THEN Return(d)
    ELSE IF IsArray(d) /\ Len(Elems(d)) > 0
    THEN Return(transformArrayOfObjects(Elems(d), cfg, SelectedFields(cfg)))
    ELSE IF TypeOf(d) = "object"
    THEN IF d = Null THEN Throw("TypeError")
         ELSE IF LengthUndefined(d)
         THEN Return(transformObjectOfObjects(d, cfg, SelectedFields(cfg)))
         ELSE Throw("Unsupported data format")
    ELSE Throw("Unsupported data format")

\* transform that takes a record with no entries for an unsupported format.
transform_RejectsEmptyRecord(d, cfg) ==
    IF d # Null /\ d # Undefined /\ TypeOf(d) # "object"
    THEN Return(Arr(<<Arr(<<d>>)>>))
    ELSE IF IsArray(d) /\ Len(Elems(d)) > 0 /\ IsArray(Elems(d)[1])
    THEN Return(d)
    ELSE IF IsArray(d) /\ Len(Elems(d)) = 1 /\ TypeOf(Elems(d)[1]) # "object"
    THEN Return(Arr(<<Arr(<<Elems(d)[1]>>)>>))
    ELSE IF IsArray(d) /\ Len(Elems(d)) > 0
    THEN Return(transformArrayOfObjects(Elems(d), cfg, SelectedFields(cfg)))
    ELSE IF TypeOf(d) = "object"
    THEN IF d = Null THEN Throw("TypeError")
         ELSE IF LengthUndefined(d) /\ Elems(d) # <<>>
         THEN Return(transformObjectOfObjects(d, cfg, SelectedFields(cfg)))
         ELSE Throw("Unsupported data format")
    ELSE Throw("Unsupported data format")

\* transform(data, config), its tests in the order of the code: a primitive
\* other than null and undefined; an array that starts with an array; an
\* array of one element that is not of type object; any other array that is
\* not empty; a value of type object whose length is undefined, where null
\* has no length to read; anything else.
transform(d, cfg) ==
    IF d # Null /\ d # Undefined /\ TypeOf(d) # "object"
    THEN Return(Arr(<<Arr(<<d>>)>>))
    ELSE IF IsArray(d) /\ Len(Elems(d)) > 0 /\ IsArray(Elems(d)[1])
    THEN Return(d)
    ELSE IF IsArray(d) /\ Len(Elems(d)) = 1 /\ TypeOf(Elems(d)[1]) # "object"
    THEN Return(Arr(<<Arr(<<Elems(d)[1]>>)>>))
    ELSE IF IsArray(d) /\ Len(Elems(d)) > 0
    THEN Return(transformArrayOfObjects(Elems(d), cfg, SelectedFields(cfg)))
    ELSE IF TypeOf(d) = "object"
    THEN IF d = Null THEN Throw("TypeError")
         ELSE IF LengthUndefined(d)
         THEN Return(transformObjectOfObjects(d, cfg, SelectedFields(cfg)))
         ELSE Throw("Unsupported data format")
    ELSE Throw("Unsupported data format")

----------------------------------------------------------------------------
(* Reading: transformGetResponse and its helpers *)

\* copyValuesArray(values): a new outer array; each row that is an array is
\* copied element by element, any other row is pushed as it is.
copyValuesArray(vals) ==
    LET RECURSIVE Push(_)
        Push(n) ==
            IF n = 0 THEN <<>>
            ELSE Append(Push(n - 1),
                        IF IsArray(Elems(vals)[n])
                        THEN Arr([j \in DOMAIN Elems(Elems(vals)[n]) |->
                                    Elems(Elems(vals)[n])[j]])
                        ELSE Elems(vals)[n])
    IN Arr(Push(Len(Elems(vals))))

\* The loop of lines 291 and 325 run over the header's length instead of
\* the row's: a header name beyond the row is given undefined.
ZipLabels_OverHeader(line_labels, obj) ==
    LET RECURSIVE Put(_)
        Put(n) == IF n = 0 THEN Obj(<<>>)
                  ELSE ObjSet(Put(n - 1), ToText(At(line_labels, n)), At(obj, n))
    IN Put(IF Len(line_labels) > Len(obj) THEN Len(line_labels) ELSE Len(obj))

\* newl[line_labels[i]] = obj[i] for i = 0 .. obj.length - 1, from newl = {}.
ZipLabels(line_labels, obj) ==
    LET RECURSIVE Put(_)
        Put(n) == IF n = 0 THEN Obj(<<>>)
                  ELSE ObjSet(Put(n - 1), ToText(At(line_labels, n)), obj[n])
    IN Put(Len(obj))

\* _transformWithBothHeaders without line_labels.shift(): the corner cell
\* stays in the header, so every column label is off by one.
_transformWithBothHeaders_KeepsCorner(response) ==
    LET rows        == Elems(response)
        line_labels == Elems(rows[1])
        RECURSIVE Loop(_)
        Loop(n) ==
            IF n = 1 THEN Obj(<<>>)
            ELSE ObjSet(Loop(n - 1),
                        ToText(ShiftHead(Elems(rows[n]))),
                        ZipLabels(line_labels, ShiftRest(Elems(rows[n]))))
    IN IF rows = <<>> THEN Throw("TypeError") ELSE Return(Loop(Len(rows)))

\* _transformWithBothHeaders(response): response.shift() is the header row,
\* whose corner cell is shifted off; each other row gives the entry
\* objet[row.shift()] = {header[i]: row[i]}. On an empty response the header
\* is undefined and line_labels.shift() throws.
_transformWithBothHeaders(response) ==
    LET rows        == Elems(response)
        line_labels == ShiftRest(Elems(rows[1]))
        RECURSIVE Loop(_)
        Loop(n) ==
            IF n = 1 THEN Obj(<<>>)
            ELSE ObjSet(Loop(n - 1),
                        ToText(ShiftHead(Elems(rows[n]))),
                        ZipLabels(line_labels, ShiftRest(Elems(rows[n]))))
    IN IF rows = <<>> THEN Throw("TypeError") ELSE Return(Loop(Len(rows)))

\* _transformWithSingleHeader(response): objet[row.shift()] = row for every row.
_transformWithSingleHeader(response) ==
    LET rows == Elems(response)
        RECURSIVE Loop(_)
        Loop(n) ==
            IF n = 0 THEN Obj(<<>>)
            ELSE ObjSet(Loop(n - 1),
                        ToText(ShiftHead(Elems(rows[n]))),
                        Arr(ShiftRest(Elems(rows[n]))))
    IN Return(Loop(Len(rows)))

\* _transformToObjectArray(response): response.shift() is the list of field
\* names; each other row becomes the record {names[i]: row[i]}.
_transformToObjectArray(response) ==
    LET rows        == Elems(response)
        line_labels == IF rows = <<>> THEN <<>> ELSE Elems(rows[1])
        RECURSIVE Loop(_)
        Loop(n) ==
            IF n <= 1 THEN <<>>
            ELSE Append(Loop(n - 1), ZipLabels(line_labels, Elems(rows[n])))
    IN Return(Arr(Loop(Len(rows))))

\* The test of lines 269-270 without its config.direction alternatives.
HeaderMatchesDimension_IgnoresDirection(cfg, md) ==
    \/ cfg.column /\ md = "COLUMNS"
    \/ cfg.line /\ md = "ROWS"

\* The test of lines 269-270: the single header lies along the data's major
\* dimension.
HeaderMatchesDimension(cfg, md) ==
    \/ cfg.column /\ (md = "COLUMNS" \/ cfg.direction = "column")
    \/ cfg.line /\ (md = "ROWS" \/ cfg.direction = "line")

\* transformGetResponse whose unwrapping test forgets response.length === 1:
\* any grid whose first row has one cell is taken for a single cell.
transformGetResponse_UnwrapsFirstRow(vals, cfg, md) ==
    LET response == copyValuesArray(vals)
    IN  IF ~cfg.line /\ ~cfg.column
        THEN IF Len(Elems(response)) >= 1 /\ Len(Elems(Elems(response)[1])) = 1
             THEN Return(Elems(Elems(response)[1])[1])
             ELSE Return(response)
        ELSE IF cfg.line /\ cfg.column
        THEN _transformWithBothHeaders(response)
        ELSE IF HeaderMatchesDimension(cfg, md)
        THEN _transformWithSingleHeader(response)
        ELSE _transformToObjectArray(response)

\* transformGetResponse(values, config, majorDimension)
transformGetResponse(vals, cfg, md) ==
    LET response == copyValuesArray(vals)
    IN  IF ~cfg.line /\ ~cfg.column
        THEN IF Len(Elems(response)) = 1 /\ Len(Elems(Elems(response)[1])) = 1
             THEN Return(Elems(Elems(response)[1])[1])
             ELSE Return(response)
        ELSE IF cfg.line /\ cfg.column
        THEN _transformWithBothHeaders(response)
        ELSE IF HeaderMatchesDimension(cfg, md)
        THEN _transformWithSingleHeader(response)
        ELSE _transformToObjectArray(response)

----------------------------------------------------------------------------
(* Reading, with the arrays by identity *)

\* What a call by identity does: the heap after it, and what it returned or
\* threw.
ReturnOn(h, v) == [heap |-> h, value |-> v, error |-> ""]
ThrowOn(h, e)  == [heap |-> h, value |-> NoValue, error |-> e]

\* copyValuesArray that pushes every row as it is, arrays included.
copyValuesArrayOnHeap_SameRows(h, vals) == Alloc(h, h[Addr(vals)])

\* copyValuesArray(values) on the heap h: result = [] is a new array; a row
\* that is an array is pushed as Array.from(row), a new array of the same
\* cells; any other row is pushed as it is.
copyValuesArrayOnHeap(h, vals) ==
    LET rows == h[Addr(vals)]
        RECURSIVE Push(_)
        Push(n) ==
            IF n = 0 THEN [heap |-> h, items |-> <<>>]
            ELSE LET p == Push(n - 1)
                 IN  IF IsRef(rows[n])
                     THEN LET c == Alloc(p.heap, p.heap[Addr(rows[n])])
                          IN  [heap |-> c.heap, items |-> Append(p.items, c.value)]
                     ELSE [heap |-> p.heap, items |-> Append(p.items, rows[n])]
    IN  Alloc(Push(Len(rows)).heap, Push(Len(rows)).items)

\* _transformWithBothHeaders(response) on the heap: response.shift() and
\* line_labels.shift() and every obj.shift() change the arrays they are
\* called on; the result holds new records only.
_transformWithBothHeadersOnHeap(h, response) ==
    LET o    == Addr(response)
        rows == h[o]
        h1   == Write(h, o, ShiftRest(rows))
        ll   == Addr(rows[1])
        h2   == Write(h1, ll, ShiftRest(h1[ll]))
        RECURSIVE Loop(_)
        Loop(n) ==
            IF n = 1 THEN [heap |-> h2, objet |-> Obj(<<>>)]
            ELSE LET p    == Loop(n - 1)
                     r    == Addr(rows[n])
                     item == ShiftHead(p.heap[r])
                     hn   == Write(p.heap, r, ShiftRest(p.heap[r]))
                 IN  [heap  |-> hn,
                      objet |-> ObjSet(p.objet, ToText(item),
                                       ZipLabels(hn[ll], hn[r]))]
    IN  IF rows = <<>> THEN ThrowOn(h, "TypeError")
        ELSE ReturnOn(Loop(Len(rows)).heap, Loop(Len(rows)).objet)

\* _transformWithSingleHeader(response) on the heap: every row is shifted in
\* place and is itself the value of its entry.
_transformWithSingleHeaderOnHeap(h, response) ==
    LET rows == h[Addr(response)]
        RECURSIVE Loop(_)
        Loop(n) ==
            IF n = 0 THEN [heap |-> h, objet |-> Obj(<<>>)]
            ELSE LET p == Loop(n - 1)
                     r == Addr(rows[n])
                 IN  [heap  |-> Write(p.heap, r, ShiftRest(p.heap[r])),
                      objet |-> ObjSet(p.objet, ToText(ShiftHead(p.heap[r])), rows[n])]
    IN  ReturnOn(Loop(Len(rows)).heap, Loop(Len(rows)).objet)

\* _transformToObjectArray(response) on the heap: response.shift() changes
\* response; the result is a new array of new records.
_transformToObjectArrayOnHeap(h, response) ==
    LET o    == Addr(response)
        rows == h[o]
        h1   == Write(h, o, ShiftRest(rows))
        line_labels == IF rows = <<>> THEN <<>> ELSE h1[Addr(rows[1])]
        RECURSIVE Loop(_)
        Loop(n) ==
            IF n <= 1 THEN <<>>
            ELSE Append(Loop(n - 1), ZipLabels(line_labels, h1[Addr(rows[n])]))
        array == Alloc(h1, Loop(Len(rows)))
    IN  ReturnOn(array.heap, array.value)

\* The rest of transformGetResponse, from the array response on.
DecodeOnHeap(h, response, cfg, md) ==
    IF ~cfg.line /\ ~cfg.column
    THEN LET rows == h[Addr(response)]
         IN  IF Len(rows) = 1 /\ Len(h[Addr(rows[1])]) = 1
             THEN ReturnOn(h, h[Addr(rows[1])][1])
             ELSE ReturnOn(h, response)
    ELSE IF cfg.line /\ cfg.column
    THEN _transformWithBothHeadersOnHeap(h, response)
    ELSE IF HeaderMatchesDimension(cfg, md)
    THEN _transformWithSingleHeaderOnHeap(h, response)
    ELSE _transformToObjectArrayOnHeap(h, response)

\* transformGetResponse that works on the grid it is handed.
transformGetResponseOnHeap_NoCopy(h, vals, cfg, md) == DecodeOnHeap(h, vals, cfg, md)

\* transformGetResponse(values, config, majorDimension) on the heap: response
\* is the copy copyValuesArray makes, and everything after works on response.
transformGetResponseOnHeap(h, vals, cfg, md) ==
    LET c == copyValuesArrayOnHeap(h, vals)
    IN  DecodeOnHeap(c.heap, c.value, cfg, md)

----------------------------------------------------------------------------
(* Looking one cell up: transformCellResponse(values, cell_l, cell_c) *)

\* The string the lookup returns when it has no cell to return.
NotFound == Str(<<"Not found">>)

\* !v for the values a lookup is handed: null, undefined, '' and 0 are falsy,
\* an array never is.
Falsy(v) == v \in {Null, Undefined, Str(<<"">>), Num("0")}

\* The loop of lines 350-355 run to its end, a later match replacing an
\* earlier one: the last row whose first cell is l.
MatchingRow_Last(rows, l) ==
    IF \E i \in 2..Len(rows) : At(Elems(rows[i]), 1) = l
    THEN CHOOSE i \in 2..Len(rows) :
            /\ At(Elems(rows[i]), 1) = l
            /\ \A k \in (i + 1)..Len(rows) : At(Elems(rows[k]), 1) # l
    ELSE 0

\* The loop of lines 350-355: the first i >= 1 with values[i][0] === l, as
\* the 1-based position of that row; 0 when the loop ends without one.
MatchingRow(rows, l) ==
    IF \E i \in 2..Len(rows) : At(Elems(rows[i]), 1) = l
    THEN CHOOSE i \in 2..Len(rows) :
            /\ At(Elems(rows[i]), 1) = l
            /\ \A k \in 2..(i - 1) : At(Elems(rows[k]), 1) # l
    ELSE 0

\* transformCellResponse without the test cellValue !== '' of line 353.
transformCellResponse_ReturnsEmpty(vals, l, c) ==
    IF Falsy(vals) \/ Len(Elems(vals)) = 0 THEN NotFound
    ELSE LET rows     == Elems(vals)
             colIndex == IndexOf(Elems(rows[1]), c)
             i        == MatchingRow(rows, l)
         IN  IF colIndex = -1 THEN NotFound
             ELSE IF i = 0 THEN NotFound
             ELSE LET cellValue == At(Elems(rows[i]), colIndex + 1)
                  IN  IF cellValue # Undefined THEN cellValue ELSE NotFound

\* transformCellResponse(values, cell_l, cell_c).
transformCellResponse(vals, l, c) ==
    IF Falsy(vals) \/ Len(Elems(vals)) = 0 THEN NotFound
    ELSE LET rows     == Elems(vals)
             colIndex == IndexOf(Elems(rows[1]), c)
             i        == MatchingRow(rows, l)
         IN  IF colIndex = -1 THEN NotFound
             ELSE IF i = 0 THEN NotFound
             ELSE LET cellValue == At(Elems(rows[i]), colIndex + 1)
                  IN  IF cellValue # Undefined /\ cellValue # Str(<<"">>)
                      THEN cellValue
                      ELSE NotFound

----------------------------------------------------------------------------
(* Writing, with the arrays by identity *)

\* A reference value as for-in and typeof see it: an array shows its
\* elements, which stay reference values.
Seen(h, v) == IF IsRef(v) THEN Arr(h[Addr(v)]) ELSE v

\* const fields of transform without Array.from: the caller's list itself.
SelectedFieldsOnHeap_NoCopy(h, sel) ==
    IF h[Addr(sel)] # <<>> /\ TruthyText(h[Addr(sel)][1][2])
    THEN [heap |-> h, value |-> sel]
    ELSE [heap |-> h, value |-> NoValue]

\* const fields of transform on the heap: Array.from(config.selfields), a new
\* array, when the list starts with a truthy name; undefined otherwise.
SelectedFieldsOnHeap(h, sel) ==
    IF h[Addr(sel)] # <<>> /\ TruthyText(h[Addr(sel)][1][2])
    THEN Alloc(h, h[Addr(sel)])
    ELSE [heap |-> h, value |-> NoValue]

\* The names a list of string cells holds.
CellTexts(cells) == [i \in DOMAIN cells |-> cells[i][2]]

\* values.push(row) for the extracted record x, after the rows p pushed so
\* far: the row is a new array of all the extracted values or of the
\* selected ones.
PushRow(p, x, all, fields) ==
    Alloc(p.heap,
          IF all THEN x.values
          ELSE SelectRow(x, CellTexts(p.heap[Addr(fields)])))

Pushed(p, row) == [heap |-> row.heap, items |-> Append(p.items, row.value)]

PushRowOf(p, element, all, fields) ==
    Pushed(p, PushRow(p, extractObjectValues(Seen(p.heap, element)), all, fields))

\* The loops of lines 55-58, 67-75, 99-103 and 117-126: one new row array per
\* element.
RowsOnHeap(h, elements, all, fields) ==
    LET RECURSIVE Push(_)
        Push(n) ==
            IF n = 0 THEN [heap |-> h, items |-> <<>>]
            ELSE PushRowOf(Push(n - 1), elements[n], all, fields)
    IN  Push(Len(elements))

\* values.unshift(firstObj.keys): the keys are a new array.
KeysRowOnHeap(h, first) == Alloc(h, TextCells(extractObjectValues(Seen(h, first)).keys))

\* values.unshift(header) on the rows items, then return values: values is a
\* new array.
Unshifted(header, items) == Alloc(header.heap, <<header.value>> \o items)

\* The end of transformArrayOfObjects after the rows body were pushed: the
\* header row, when asked for, is the new array of the first record's keys,
\* or the array fields itself.
ArrayWithKeys(body, first, asked) ==
    IF asked THEN Unshifted(KeysRowOnHeap(body.heap, first), body.items)
    ELSE Alloc(body.heap, body.items)

ArrayWithFields(body, fields, asked) ==
    Alloc(body.heap, IF asked THEN <<fields>> \o body.items ELSE body.items)

\* transformArrayOfObjects on the heap.
transformArrayOfObjectsOnHeap(h, rows, cfg, fields) ==
    IF cfg.fields = "all"
    THEN ArrayWithKeys(RowsOnHeap(h, h[Addr(rows)], TRUE, fields),
                       h[Addr(rows)][1], cfg.method = "new" /\ cfg.line)
    ELSE IF fields # NoValue
    THEN ArrayWithFields(RowsOnHeap(h, h[Addr(rows)], FALSE, fields),
                         fields, cfg.method = "new" /\ cfg.line)
    ELSE Alloc(h, <<>>)

\* row.unshift(cell) on the row at address a.
Unshift(h, a, cell) == Write(h, a, <<cell>> \o h[a])

\* addColumnLabels(values, labels, hasLineHeaders) on the heap: every unshift
\* changes the row it is called on.
addColumnLabelsOnHeap(h, items, labels, hasLineHeaders) ==
    LET off == IF hasLineHeaders THEN 1 ELSE 0
        RECURSIVE Loop(_)
        Loop(i) ==
            IF i = 0
            THEN IF hasLineHeaders
                 THEN Unshift(h, Addr(items[1]), Str(<<"Elements">>)) ELSE h
            ELSE Unshift(Loop(i - 1), Addr(items[i + off]), Str(labels[i]))
    IN  Loop(Len(labels))

\* The end of transformObjectOfObjects under the method new, on the rows
\* items of the heap h: the column labels, then return values.
Labelled(h, items, labels, cfg) ==
    Alloc(IF cfg.column THEN addColumnLabelsOnHeap(h, items, labels, cfg.line) ELSE h,
          items)

\* The end of transformObjectOfObjects after the rows body were pushed;
\* header is the header row to unshift under config.line.
Headed(body, header, labels, cfg) ==
    IF cfg.method = "new"
    THEN IF cfg.line
         THEN Labelled(header.heap, <<header.value>> \o body.items, labels, cfg)
         ELSE Labelled(body.heap, body.items, labels, cfg)
    ELSE Alloc(body.heap, body.items)

HeadedWithKeys(body, first, labels, cfg) ==
    Headed(body, KeysRowOnHeap(body.heap, first), labels, cfg)

HeadedWithFields(body, fields, labels, cfg) ==
    Headed(body, [heap |-> body.heap, value |-> fields], labels, cfg)

\* The keys of a record and what it holds under them, in for-in order.
LabelsOf(obj) == [i \in DOMAIN ForIn(obj) |-> ForIn(obj)[i][1]]
ElementsOf(obj) == [i \in DOMAIN ForIn(obj) |-> ForIn(obj)[i][2]]

\* data[labels[0]]
FirstOf(obj) == IF ForIn(obj) = <<>> THEN Undefined ELSE ObjGet(obj, ForIn(obj)[1][1])

\* transformObjectOfObjects on the heap.
transformObjectOfObjectsOnHeap(h, obj, cfg, fields) ==
    IF cfg.fields = "all"
    THEN HeadedWithKeys(RowsOnHeap(h, ElementsOf(obj), TRUE, fields),
                        FirstOf(obj), LabelsOf(obj), cfg)
    ELSE IF fields # NoValue
    THEN HeadedWithFields(RowsOnHeap(h, ElementsOf(obj), FALSE, fields),
                          fields, LabelsOf(obj), cfg)
    ELSE Alloc(h, <<>>)

\* [[x]]: a new row in a new outer array.
OneCellOnHeap(h, x) == Alloc(Append(h, <<x>>), <<Ref(Len(h) + 1)>>)

\* typeof of a reference value.
TypeOfSeen(v) == IF IsRef(v) THEN "object" ELSE TypeOf(v)

\* What a call that returns the new array a leaves.
Got(a) == [heap |-> a.heap, value |-> a.value, error |-> ""]

\* The tests of transform after const fields, on the heap.
DispatchOnHeap(h, d, cfg, fields) ==
    IF d # Null /\ d # Undefined /\ TypeOfSeen(d) # "object"
    THEN Got(OneCellOnHeap(h, d))
    ELSE IF IsRef(d) /\ Len(h[Addr(d)]) > 0 /\ IsRef(h[Addr(d)][1])
    THEN ReturnOn(h, d)
    ELSE IF IsRef(d) /\ Len(h[Addr(d)]) = 1 /\ TypeOfSeen(h[Addr(d)][1]) # "object"
    THEN Got(OneCellOnHeap(h, h[Addr(d)][1]))
    ELSE IF IsRef(d) /\ Len(h[Addr(d)]) > 0
    THEN Got(transformArrayOfObjectsOnHeap(h, d, cfg, fields))
    ELSE IF TypeOfSeen(d) = "object"
    THEN IF d = Null THEN ThrowOn(h, "TypeError")
         ELSE IF ~IsRef(d) /\ LengthUndefined(d)
         THEN Got(transformObjectOfObjectsOnHeap(h, d, cfg, fields))
         ELSE ThrowOn(h, "Unsupported data format")
    ELSE ThrowOn(h, "Unsupported data format")

\* transform after const fields f.
DispatchWith(f, d, cfg) == DispatchOnHeap(f.heap, d, cfg, f.value)

\* transform(data, config) on the heap; sel is the array config.selfields.
transformOnHeap(h, d, cfg, sel) == DispatchWith(SelectedFieldsOnHeap(h, sel), d, cfg)

----------------------------------------------------------------------------
(* The node: nodes/google-spreadsheet.js and CacheService *)

\* A range and a cache key are texts written as sequences of tokens: the
\* characters that replace() and split() look for ("!", ":", "'", the double
\* quote, " ", "_", ".") are tokens of their own, any run of other characters
\* is one token. 'S!A1' is <<"S", "!", "A1">>.

\* range.replace(/[!:'" ]/g, "_")
saveFieldOf(r) ==
    [i \in DOMAIN r |-> IF r[i] \in {"!", ":", "'", "\"", " "} THEN "_" ELSE r[i]]

\* key.split('.'): the property names of the path, each a sequence of tokens.
RECURSIVE Split(_)
Split(t) ==
    IF "." \notin Range(t) THEN <<t>>
    ELSE LET i == CHOOSE k \in DOMAIN t : t[k] = "." /\ \A j \in 1..(k - 1) : t[j] # "."
         IN  <<SubSeq(t, 1, i - 1)>> \o Split(SubSeq(t, i + 1, Len(t)))

\* The names an object has without an entry of its own, from
\* Object.prototype: constructor stands for them.
Inherited == {<<"constructor">>}

\* current[k] while a path is walked: a record gives its entry, and what it
\* inherits when it has no entry of that name; a grid has no property of a
\* path's name but what it inherits.
Prop(current, k) ==
    IF IsPlainObject(current) /\ HasKey(current, k) THEN ObjGet(current, k)
    ELSE IF (IsPlainObject(current) \/ IsArray(current)) /\ k \in Inherited THEN Fn
    ELSE Undefined

\* delete o[k]
ObjDelete(o, k) == Obj(SelectSeq(Elems(o), LAMBDA e : e[1] # k))

\* CacheService.get(storage, key); storage is an object and key is not empty.
RECURSIVE Walk(_, _)
Walk(current, keys) ==
    IF keys = <<>> THEN current
    ELSE IF current = Null \/ current = Undefined THEN Undefined
    ELSE Walk(Prop(current, Head(keys)), Tail(keys))

Cache_get(storage, key) == Walk(storage, Split(key))

\* CacheService.set(storage, key, value): the storage after it. The objects
\* on the way are made where there is none; an undefined value deletes.
RECURSIVE SetPath(_, _, _)
SetPath(current, keys, value) ==
    CASE IsPlainObject(current) ->
        IF Len(keys) = 1
        THEN IF value = Undefined THEN ObjDelete(current, keys[1])
             ELSE ObjSet(current, keys[1], value)
        ELSE LET child == Prop(current, Head(keys))
                 next  == IF child = Null \/ TypeOf(child) # "object"
                          THEN Obj(<<>>) ELSE child
             IN  ObjSet(current, Head(keys), SetPath(next, Tail(keys), value))

Cache_set(storage, key, value) == SetPath(storage, Split(key), value)

\* CacheService.invalidate(storage, key)
Cache_invalidate(storage, key) == Cache_set(storage, key, Undefined)

\* A has that never finds the entry.
Cache_has_Never(storage, key) == FALSE

\* CacheService.has(storage, key)
Cache_has(storage, key) ==
    LET value == Cache_get(storage, key)
    IN  value # Undefined /\ (IsArray(value) => Len(Elems(value)) > 0)

\* What a handler leaves: the storage, the calls made to the remote service,
\* the payload set on the message, the error thrown or reported, whether it
\* was thrown, and the outputs node.send was called with.
Handled(storage, made, payload, e, thrown, sent) ==
    [saveLoc |-> storage, calls |-> made, payload |-> payload, error |-> e,
     thrown |-> thrown, sends |-> sent]

\* node.send([data, undefined]) after the payload is set; node.error(e) and
\* node.send([undefined, data]); an error thrown before anything is sent.
Sent(storage, made, payload) == Handled(storage, made, payload, "", FALSE, <<"success">>)
Reported(storage, made, e)   == Handled(storage, made, NoValue, e, FALSE, <<"error">>)
Thrown(storage, made, e)     == Handled(storage, made, NoValue, e, TRUE, <<>>)

\* What the remote service does with a call other than a get that succeeds:
\* it fails it, or it carries it out.
Failed == <<"failed", <<>>>>
Done   == <<"done", <<>>>>

\* const majorDimension of queryGet
RequestedDimension(cfg) == IF cfg.direction = "column" THEN "COLUMNS" ELSE "ROWS"

\* The end of both paths of queryGet: t is what transformGetResponse did.
Decoded(storage, made, t) ==
    IF t.error # "" THEN Thrown(storage, made, t.error)
    ELSE Sent(storage, made, t.value)

\* transformGetResponse(cachedValues, config, false): copyValuesArray runs
\* for...of over what the storage gave.
DecodedFromCache(storage, cached, cfg) ==
    IF ~IsArray(cached) THEN Thrown(storage, <<>>, "values is not iterable")
    ELSE Decoded(storage, <<>>, transformGetResponse(cached, cfg, "false"))

\* queryGet. resp is what getValues does: it throws (Failed), or it returns
\* a response without values (NoValue) or with the values resp; the service
\* answers with the majorDimension asked.
queryGet(storage, saveField, cfg, resp) ==
    IF Cache_has(storage, saveField)
    THEN DecodedFromCache(storage, Cache_get(storage, saveField), cfg)
    ELSE IF resp = Failed
    THEN Thrown(storage, <<"get">>, "get failed")
    ELSE IF resp = NoValue
    THEN Sent(storage, <<"get">>, Str(<<"">>))
    ELSE Decoded(Cache_set(storage, saveField, copyValuesArray(resp)), <<"get">>,
                 transformGetResponse(resp, cfg, RequestedDimension(cfg)))

\* A setValues that appends under the method 'new'.
Written_AppendsWhenNew(storage, made, method, t, written) ==
    IF t.error # "" THEN Thrown(storage, made, t.error)
    ELSE IF written = Failed
    THEN Thrown(storage, Append(made, IF method = "new" THEN "append" ELSE method),
                "set failed")
    ELSE Sent(storage, Append(made, IF method = "new" THEN "append" ELSE method), NoValue)

\* The end of querySet: t is what transform did, written what setValues
\* does; setValues calls update for the method 'new'.
Written(storage, made, method, t, written) ==
    IF t.error # "" THEN Thrown(storage, made, t.error)
    ELSE IF written = Failed
    THEN Thrown(storage, Append(made, IF method = "new" THEN "update" ELSE method),
                "set failed")
    ELSE Sent(storage, Append(made, IF method = "new" THEN "update" ELSE method), NoValue)

\* const method of input; transformConfig of querySet
MethodOf(cfg) == IF cfg.method = "" THEN "append" ELSE cfg.method

\* querySet after the calls made: an empty input is reported on the error
\* output and nothing is sent to the service.
querySet(storage, made, cfg, rows, written) ==
    IF rows = Null \/ rows = Undefined \/ rows = Arr(<<>>)
    THEN Reported(storage, made, "Input data is empty")
    ELSE Written(storage, made, MethodOf(cfg),
                 transform(rows, [cfg EXCEPT !.method = MethodOf(cfg)]), written)

\* queryClear: clearValues, and then, for the action clear, the cache entry
\* of the range is invalidated; for a set under the method new, querySet.
queryClear(storage, saveField, action, cfg, rows, cleared, written) ==
    IF cleared = Failed THEN Thrown(storage, <<"clear">>, "clear failed")
    ELSE IF action = "clear"
    THEN Sent(Cache_invalidate(storage, saveField), <<"clear">>, Str(<<"cleared">>))
    ELSE querySet(storage, <<"clear">>, cfg, rows, written)

\* input for a node whose action is get, with credentials, a valid
\* spreadsheet id and a valid range: queryGet.
inputGet(storage, cfg, r, resp) == queryGet(storage, saveFieldOf(r), cfg, resp)

\* input for a node whose action is set: the input data is required; under
\* the method new queryClear calls clearValues and then querySet, under the
\* other methods querySet is called at once.
inputSet(storage, cfg, r, rows) ==
    IF rows = Undefined \/ rows = Null
    THEN Reported(storage, <<>>, "Input data is required for set operation")
    ELSE IF cfg.method = "new"
    THEN queryClear(storage, saveFieldOf(r), "set", cfg, rows, Done, Done)
    ELSE querySet(storage, <<>>, cfg, rows, Done)

\* input for a node whose action is clear: queryClear.
inputClear(storage, cfg, r) ==
    queryClear(storage, saveFieldOf(r), "clear", cfg, NoValue, Done, Done)

----------------------------------------------------------------------------
(* The input handler from its first line: lib/validators, input, register *)

Valid      == [valid |-> TRUE, error |-> ""]
Invalid(e) == [valid |-> FALSE, error |-> e]

\* The tokens that stand for one character, and the number of characters of
\* the others: the spreadsheet ids the nodes are given.
Separators == {"!", ":", "'", "\"", " ", "_", ".", "-"}

Chars(t) ==
    CASE t \in Separators                                  -> 1
      [] t = "1BxiMVs0XRA5nFMdKvBdBZjgmUUqptlbs74OgvE2upms" -> 44
      [] t = "1mHIWnDvW9cALRMq9OdNfRwjAthCUFUOLPC1Mc1MeXAM" -> 44
      [] t = "abc123"                                      -> 6

RECURSIVE TextLength(_)
TextLength(t) == IF t = <<>> THEN 0 ELSE Chars(Head(t)) + TextLength(Tail(t))

\* validateSpreadsheetId; the pattern /^[a-zA-Z0-9_-]+$/ allows the
\* separators '_' and '-' only. A text that is missing is the empty text.
validateSpreadsheetId(id) ==
    IF id = <<>> THEN Invalid("Spreadsheet ID is required")
    ELSE IF \E i \in DOMAIN id : id[i] \in (Separators \ {"_", "-"})
    THEN Invalid("Invalid spreadsheet ID format")
    ELSE IF TextLength(id) < 20 \/ TextLength(id) > 100
    THEN Invalid("Spreadsheet ID length is unusual")
    ELSE Valid

\* The tokens cellPattern tells apart: letters, digits, letters then digits.
Letters       == {"A", "D"}
Digits        == {"1", "10"}
LettersDigits == {"A1", "B10"}

\* cellPattern.test(cellRange)
cellPattern(c) ==
    \/ Len(c) = 1 /\ c[1] \in LettersDigits
    \/ Len(c) = 3 /\ c[2] = ":" /\ c[1] \in Letters /\ c[3] \in Letters
    \/ Len(c) = 3 /\ c[2] = ":" /\ c[1] \in Digits /\ c[3] \in Digits
    \/ Len(c) = 3 /\ c[2] = ":" /\ c[1] \in LettersDigits /\ c[3] \in LettersDigits

\* s.trim() === ''
Blank(t) == \A i \in DOMAIN t : t[i] = " "

\* validateRange: a range with '!' has one '!', a sheet name before it and
\* nothing or a cell range after it; any other range passes.
validateRange(r) ==
    IF r = <<>> THEN Invalid("Range is required (at minimum, provide sheet name)")
    ELSE IF "!" \notin Range(r) THEN Valid
    ELSE IF Cardinality({i \in DOMAIN r : r[i] = "!"}) # 1
    THEN Invalid("Invalid range format. Use format: SheetName!A1:B10")
    ELSE LET bang == CHOOSE i \in DOMAIN r : r[i] = "!"
         IN  IF Blank(SubSeq(r, 1, bang - 1))
             THEN Invalid("Sheet name cannot be empty")
             ELSE IF /\ ~Blank(SubSeq(r, bang + 1, Len(r)))
                     /\ ~cellPattern(SubSeq(r, bang + 1, Len(r)))
             THEN Invalid("Invalid cell range format")
             ELSE Valid

\* A validation that lets a set through without its input data.
validateRequiredFields_DataNotRequired(action, id, r, inputData) ==
    IF id = <<>> THEN Invalid("Spreadsheet ID is required")
    ELSE IF r = <<>> THEN Invalid("Range is required")
    ELSE IF action = "cell"
    THEN Invalid("Line/row label is required for cell operation")
    ELSE Valid

\* validateRequiredFields as input calls it: with the action, the id, the
\* range and the input data, and so without the labels cell_l and cell_c the
\* action cell requires.
validateRequiredFields(action, id, r, inputData) ==
    IF id = <<>> THEN Invalid("Spreadsheet ID is required")
    ELSE IF r = <<>> THEN Invalid("Range is required")
    ELSE IF action = "set" /\ (inputData = Undefined \/ inputData = Null)
    THEN Invalid("Input data is required for set operation")
    ELSE IF action = "cell"
    THEN Invalid("Line/row label is required for cell operation")
    ELSE Valid

\* validateAuth. node.auth is "missing" when the node names no service
\* account, "uninitialised" when the service account node could not make its
\* JWT client and so has no authenticate, "ready" otherwise.
validateAuth(a) ==
    IF a = "missing" THEN Invalid("Authentication configuration is missing")
    ELSE IF a = "uninitialised" THEN Invalid("Authentication configuration is invalid")
    ELSE Valid

\* What input leaves: what its handlers left, and the states the status was
\* set to.
Outcome(h, states) ==
    [saveLoc |-> h.saveLoc, calls |-> h.calls, payload |-> h.payload,
     error |-> h.error, thrown |-> h.thrown, sends |-> h.sends, status |-> states]

\* ErrorHandler.handleValidation on a validation that failed, and the state
\* input sets after it, if any.
handleValidation(storage, validation, after) ==
    Outcome(Reported(storage, <<>>, validation.error),
            <<"VALIDATING", "VALIDATION_ERROR">> \o after)

\* const action of input
ActionOf(a) == IF a = "" THEN "set" ELSE a

\* The outcomes of the remote calls of one message: the call named fails,
\* the others are carried out; a get is answered answer.
Remote(failing, answer) ==
    [authenticate |-> IF failing = "authenticate" THEN Failed ELSE Done,
     clear        |-> IF failing = "clear" THEN Failed ELSE Done,
     set          |-> IF failing = "set" THEN Failed ELSE Done,
     get          |-> IF failing = "get" THEN Failed ELSE answer]

\* The branches of input after authenticate.
Execute(storage, action, cfg, r, rows, remote) ==
    IF action = "clear" \/ (action = "set" /\ cfg.method = "new")
    THEN queryClear(storage, saveFieldOf(r), action, cfg, rows, remote.clear, remote.set)
    ELSE IF action = "get"
    THEN queryGet(storage, saveFieldOf(r), cfg, remote.get)
    ELSE IF action = "set"
    THEN querySet(storage, <<>>, cfg, rows, remote.set)
    ELSE Handled(storage, <<>>, NoValue, "", FALSE, <<>>)

\* The try of input once a handler is back: the status is SUCCESS when the
\* handler returned; what it threw is thrown on.
Executed(h) ==
    Outcome([h EXCEPT !.calls = <<"authenticate">> \o @],
            IF h.thrown THEN <<"VALIDATING", "PROCESSING">>
            ELSE <<"VALIDATING", "PROCESSING", "SUCCESS">>)

\* input(RED, node, data, config, ...): a is node.auth, action is
\* config.action, rows what the message carries under the input field.
input(storage, a, action, cfg, id, r, rows, remote) ==
    IF ~validateAuth(a).valid
    THEN handleValidation(storage, validateAuth(a), <<"AUTH_ERROR">>)
    ELSE IF ~validateSpreadsheetId(id).valid
    THEN handleValidation(storage, validateSpreadsheetId(id), <<"INVALID_ID">>)
    ELSE IF ~validateRange(r).valid
    THEN handleValidation(storage, validateRange(r), <<"INVALID_RANGE">>)
    ELSE IF ~validateRequiredFields(ActionOf(action), id, r,
                                    IF ActionOf(action) = "set" THEN rows ELSE Null).valid
    THEN handleValidation(storage,
                          validateRequiredFields(ActionOf(action), id, r,
                              IF ActionOf(action) = "set" THEN rows ELSE Null),
                          <<>>)
    ELSE IF remote.authenticate = Failed
    THEN Outcome(Thrown(storage, <<"authenticate">>, "Authentication failed"),
                 <<"VALIDATING", "PROCESSING">>)
    ELSE Executed(Execute(storage, ActionOf(action), cfg, r, rows, remote))

\* A handle that logs the error and sets the status, and sends nothing.
handle_NoSend(o) ==
    [o EXCEPT !.thrown = FALSE,
              !.status = Append(@, "ERROR")]

\* ErrorHandler.handle: the error is logged, the status is set to Error and
\* the message goes to the error output.
handle(o) ==
    [o EXCEPT !.thrown = FALSE,
              !.sends  = Append(@, "error"),
              !.status = Append(@, "ERROR")]

\* The listener register gives the node for its input event.
onInput(o) == IF o.thrown THEN handle(o) ELSE o

----------------------------------------------------------------------------
(* The inputs of the model *)

MaxRows  == 3   \* rows of a grid handed to transformGetResponse
MaxCols  == 3   \* cells of one row
MaxCells == 6   \* cells of a grid in all

Min(a, b) == IF a < b THEN a ELSE b

SeqsUpTo(S, n) == UNION {[1..k -> S] : k \in 0..n}

\* Cell values as the Sheets API returns them: strings and numbers. The
\* texts are chosen so that two cells are the same key exactly when they are
\* the same cell.
Cells == {Str(<<"x">>), Num("1")}

\* The grids of at most rows rows and cells cells: rows of any lengths up to
\* MaxCols, ragged ones and empty ones included.
RECURSIVE GridsWithin(_, _)
GridsWithin(rows, cells) ==
    IF rows = 0 THEN {<<>>}
    ELSE {<<>>} \cup
         UNION {{<<Arr(r)>> \o g : g \in GridsWithin(rows - 1, cells - Len(r))} :
                   r \in SeqsUpTo(Cells, Min(MaxCols, cells))}

Grids(rows, cells) == {Arr(g) : g \in GridsWithin(rows, cells)}

MaxEntries == 3   \* entries of a record handed to extractObjectValues, nested ones included

FieldNames == {"a", "b", "length"}

\* What a record's entry can hold besides a record: a number, a string, null
\* and an array.
LeafValues == {Num("1"), Str(<<"x">>), Null, Arr(<<Num("1"), Num("2")>>)}

\* The entry lists of exactly k entries in all, those of nested records
\* included, over the names in free, each name at most once; t[j + 1] holds
\* the values of j entries in all, for every j < k.
RECURSIVE EntriesOfSize(_, _, _)
EntriesOfSize(t, free, k) ==
    IF k = 0 THEN {<<>>}
    ELSE UNION {UNION {{<<<<<<nm>>, v>>>> \o rest :
                          v \in t[j + 1],
                          rest \in EntriesOfSize(t, free \ {nm}, k - 1 - j)} :
                       j \in 0..(k - 1)} :
                  nm \in free}

\* ValuesBySize(names, leaves, n)[k + 1] holds the values of exactly k entries
\* in all: for k = 0 the leaf values and the empty record, for k > 0 the
\* records whose entries, those of their nested records included, number k.
RECURSIVE ValuesBySize(_, _, _)
ValuesBySize(names, leaves, n) ==
    IF n = 0 THEN <<leaves \cup {Obj(<<>>)}>>
    ELSE LET t == ValuesBySize(names, leaves, n - 1)
         IN  Append(t, {Obj(e) : e \in EntriesOfSize(t, names, n)})

\* d is a record of at most n entries in all: the empty record, or a first
\* entry of j entries followed by entries that make up the rest.
IsRecordUpTo(d, names, leaves, n) ==
    \/ d = Obj(<<>>)
    \/ \E k \in 1..n, nm \in names, j \in 0..(n - 1) :
         /\ j < k
         /\ LET t == ValuesBySize(names, leaves, k - 1)
            IN  \E v \in t[j + 1], rest \in EntriesOfSize(t, names \ {nm}, k - 1 - j) :
                  d = Obj(<<<<<<nm>>, v>>>> \o rest)

Directions      == {"line", "column", ""}       \* "" : config.direction is not set
MajorDimensions == {"ROWS", "COLUMNS", "false"} \* queryGet passes false on a cache hit

NoConfig == [fields |-> "", selfields |-> <<>>, method |-> "",
             line |-> FALSE, column |-> FALSE, direction |-> ""]

ReadConfigs ==
    {[NoConfig EXCEPT !.line = l, !.column = c, !.direction = d] :
        l \in BOOLEAN, c \in BOOLEAN, d \in Directions}

MaxItems == 2   \* elements of an array, entries of a map, handed to transform

RecA  == Obj(<<<<<<"a">>, Num("1")>>, <<<<"b">>, Str(<<"x">>)>>>>)   \* {a: 1, b: 'x'}
RecA2 == Obj(<<<<<<"a">>, Num("2")>>, <<<<"b">>, Str(<<"y">>)>>>>)   \* {a: 2, b: 'y'}
RecB  == Obj(<<<<<<"b">>, Str(<<"y">>)>>, <<<<"a">>, Num("2")>>>>)   \* {b: 'y', a: 2}
RecN  == Obj(<<<<<<"a">>, Obj(<<<<<<"b">>, Num("1")>>>>)>>>>)       \* {a: {b: 1}}
RecE  == Obj(<<>>)                                                  \* {}

\* A payload that is no array and no record.
WriteScalars == {Str(<<"x">>), Num("1"), Bool("true"), Null, Undefined, Fn}

\* What an array handed to transform holds.
ArrayElements ==
    {RecA, RecB, RecN, RecE, Num("1"), Str(<<"x">>), Null, Undefined, Arr(<<Num("1")>>)}

\* What a map handed to transform holds under its keys, and the keys.
MapValues == {RecA, RecB, RecN, RecE, Num("1")}
MapKeys   == {"r1", "r2", "length"}

\* The entry lists of at most k entries with distinct keys from free.
RECURSIVE MapEntries(_, _)
MapEntries(free, k) ==
    IF k = 0 THEN {<<>>}
    ELSE {<<>>} \cup
         UNION {{<<<<<<nm>>, v>>>> \o rest :
                    v \in MapValues, rest \in MapEntries(free \ {nm}, k - 1)} :
                nm \in free}

WriteInputs(n) ==
    WriteScalars
        \cup {Arr(e) : e \in SeqsUpTo(ArrayElements, n)}
        \cup {Obj(e) : e \in MapEntries(MapKeys, n)}

\* The field lists of a node: none, one field, two fields in an order that is
\* not the records', a nested field with a field no record has.
FieldLists == {<<>>, <<<<"a">>>>, <<<<"b">>, <<"a">>>>, <<<<"a", "b">>, <<"c">>>>}

Methods == {"new", "append", "update"}

WriteConfigs ==
    {[NoConfig EXCEPT !.fields = f, !.selfields = sf, !.method = m,
                      !.line = l, !.column = c] :
        f \in {"all", "selected"}, sf \in FieldLists, m \in Methods,
        l \in BOOLEAN, c \in BOOLEAN}

\* The arrays of records written and read back, and the configs of the
\* writing node.
RoundTripInputs(n) == {Arr(e) : e \in SeqsUpTo({RecA, RecA2, RecB}, n) \ {<<>>}}

RoundTripConfigs ==
    {[NoConfig EXCEPT !.fields = "all", !.method = m, !.line = l, !.column = c] :
        m \in {"new", "append"}, l \in BOOLEAN, c \in BOOLEAN}

----------------------------------------------------------------------------
(* Reading a grid: transformGetResponse(values, config, majorDimension) *)

\* The Sheets API has answered with the grid values.
InitRead ==
    /\ pc = "call"
    /\ NoCell
    /\ NoNode
    /\ NoMsg
    /\ NoAuth
    /\ op = "transformGetResponse"
    /\ data = NoValue
    /\ values \in Grids(MaxRows, MaxCells)
    /\ config = NoConfig
    /\ setConfig = NoConfig
    /\ majorDimension = ""
    /\ result = NoValue
    /\ error = ""
    /\ mem = NoMem

\* The node decodes the grid under its configuration cfg.
TransformGetResponse(cfg, md) ==
    /\ pc = "call"
    /\ op = "transformGetResponse"
    /\ config' = cfg
    /\ majorDimension' = md
    /\ LET r == transformGetResponse(values, cfg, md)
       IN  result' = r.value /\ error' = r.error
    /\ pc' = "done"
    /\ UNCHANGED <<op, data, setConfig, values, mem>>
    /\ UNCHANGED <<cellVars, nodeVars, msgVars, authVars>>

NextRead ==
    \E cfg \in ReadConfigs, md \in MajorDimensions : TransformGetResponse(cfg, md)

SpecRead == InitRead /\ [][NextRead]_vars

----------------------------------------------------------------------------
(* Properties of reading *)

ReadDone == pc = "done" /\ op = "transformGetResponse"

\* The rows of the grid handed to transformGetResponse, as sequences of cells.
GridRow(i)  == Elems(Elems(values)[i])
GridHeight  == Len(Elems(values))
\* The key a row's first cell gives; a row without cells gives "undefined".
RowLabel(i) == ToText(ShiftHead(GridRow(i)))
\* The key the cell j of row 1 gives; a missing cell gives "undefined".
ColLabel(j) == ToText(At(GridRow(1), j))

KeySet(o) == Range(ObjKeys(o))

\* result is the mapping from each row's first cell to the rest of that row.
\* A label that several rows carry maps to the last of them, as in any
\* mapping filled row by row.
IsLabelMapping ==
    /\ IsPlainObject(result)
    /\ KeySet(result) = {RowLabel(i) : i \in 1..GridHeight}
    /\ \A i \in 1..GridHeight :
          (\A k \in (i + 1)..GridHeight : RowLabel(k) # RowLabel(i))
              => ObjGet(result, RowLabel(i)) = Arr(ShiftRest(GridRow(i)))

\* result is the array of records: one record per row after row 1, which
\* holds row 1's cell j as the name of the row's cell j.
IsRecordArray ==
    /\ IsArray(result)
    /\ Len(Elems(result)) = (IF GridHeight = 0 THEN 0 ELSE GridHeight - 1)
    /\ \A i \in 2..GridHeight :
          LET rec == Elems(result)[i - 1]
              w   == Len(GridRow(i))
          IN  /\ IsPlainObject(rec)
              /\ KeySet(rec) = {ColLabel(j) : j \in 1..w}
              /\ \A j \in 1..w :
                    (\A k \in (j + 1)..w : ColLabel(k) # ColLabel(j))
                        => ObjGet(rec, ColLabel(j)) = GridRow(i)[j]

RowsAsLongAsHeader ==
    /\ GridHeight >= 1
    /\ Len(GridRow(1)) >= 1
    /\ \A i \in 2..GridHeight : Len(GridRow(i)) = Len(GridRow(1))

\* C3: with both header flags set and every data row as long as the header
\* row, transformGetResponse returns a mapping with one entry per data row,
\* keyed by the row's first cell, whose value maps header[j] to row[j] for
\* every j >= 1 (the corner cell is dropped), whatever majorDimension and
\* direction are. A label that repeats maps to the last row or column
\* carrying it.
C3_BothHeaders ==
    (ReadDone /\ config.line /\ config.column /\ RowsAsLongAsHeader) =>
        /\ error = ""
        /\ IsPlainObject(result)
        /\ KeySet(result) = {RowLabel(i) : i \in 2..GridHeight}
        /\ \A i \in 2..GridHeight :
              (\A k \in (i + 1)..GridHeight : RowLabel(k) # RowLabel(i)) =>
                  LET inner == ObjGet(result, RowLabel(i))
                      w     == Len(GridRow(1))
                  IN  /\ IsPlainObject(inner)
                      /\ KeySet(inner) = {ColLabel(j) : j \in 2..w}
                      /\ \A j \in 2..w :
                            (\A k \in (j + 1)..w : ColLabel(k) # ColLabel(j))
                                => ObjGet(inner, ColLabel(j)) = GridRow(i)[j]

\* A corner, two column labels and one data row.
C3_Witness ==
    /\ ReadDone
    /\ config.line /\ config.column
    /\ RowsAsLongAsHeader
    /\ GridHeight = 2 /\ Len(GridRow(1)) = 3
    /\ ColLabel(2) # ColLabel(3)
    /\ GridRow(2)[2] # GridRow(2)[3]
    /\ error = ""

\* C4: with neither header flag set, transformGetResponse returns the cell
\* itself for a grid of exactly one row of exactly one cell, and otherwise a
\* grid equal in value to the one it was given.
C4_NoHeaders ==
    (ReadDone /\ ~config.line /\ ~config.column) =>
        /\ error = ""
        /\ IF GridHeight = 1 /\ Len(GridRow(1)) = 1
           THEN result = GridRow(1)[1]
           ELSE result = values

\* The single cell of a one-cell grid comes back unwrapped.
C4_Witness ==
    /\ ReadDone
    /\ ~config.line /\ ~config.column
    /\ GridHeight = 1 /\ Len(GridRow(1)) = 1
    /\ result = GridRow(1)[1]

\* v is undefined or holds undefined somewhere inside.
RECURSIVE HoldsUndefined(_)
HoldsUndefined(v) ==
    CASE v = Undefined    -> TRUE
      [] IsArray(v)       -> \E i \in DOMAIN Elems(v) : HoldsUndefined(Elems(v)[i])
      [] IsPlainObject(v) -> \E i \in DOMAIN Elems(v) : HoldsUndefined(Elems(v)[i][2])
      [] OTHER            -> FALSE

\* rec has no entry for the header names from position from on that lie
\* beyond the cells of row i; a name that a cell of the row also carries is
\* that cell's entry.
NoEntryBeyondRow(rec, i, from) ==
    \A j \in (Len(GridRow(i)) + 1)..Len(GridRow(1)) :
        j >= from =>
            \/ ~HasKey(rec, ColLabel(j))
            \/ \E k \in from..Len(GridRow(i)) : ColLabel(k) = ColLabel(j)

\* No later row carries the label of row i: the entry under that label is
\* row i's.
LastWithLabel(i) == \A k \in (i + 1)..GridHeight : RowLabel(k) # RowLabel(i)

\* C16: for every grid of at least one row, whatever the lengths of its rows
\* (differing, zero), and for every header configuration and majorDimension,
\* transformGetResponse raises no error, and a cell missing at the end of a
\* row is left out of the result: no value of the result is undefined, a
\* row's record has no entry under a header name the row has no cell for,
\* and a row's array of remaining cells is no longer than the row.
C16_RaggedGridsDecode ==
    (ReadDone /\ GridHeight >= 1) =>
        /\ error = ""
        /\ ~HoldsUndefined(result)
        /\ (config.line /\ config.column) =>
              \A i \in 2..GridHeight :
                  LastWithLabel(i) =>
                      NoEntryBeyondRow(ObjGet(result, RowLabel(i)), i, 2)
        /\ (IsArray(result) /\ config.line # config.column) =>
              \A i \in 2..GridHeight :
                  NoEntryBeyondRow(Elems(result)[i - 1], i, 1)
        /\ (IsPlainObject(result) /\ config.line # config.column) =>
              \A i \in 1..GridHeight :
                  LastWithLabel(i) =>
                      Len(Elems(ObjGet(result, RowLabel(i)))) <= Len(GridRow(i))

\* A header of three cells over a row of two, read with both headers: the
\* row's record has the one entry the row has a cell for.
C16_Witness ==
    /\ ReadDone
    /\ config.line /\ config.column
    /\ GridHeight = 2 /\ Len(GridRow(1)) = 3 /\ Len(GridRow(2)) = 2
    /\ ColLabel(2) # ColLabel(3)
    /\ error = ""
    /\ KeySet(ObjGet(result, RowLabel(2))) = {ColLabel(2)}

----------------------------------------------------------------------------
(* Flattening a record: extractObjectValues(obj) *)

InitExtract ==
    /\ pc = "call"
    /\ NoCell
    /\ NoNode
    /\ NoMsg
    /\ NoAuth
    /\ op = "extractObjectValues"
    /\ IsRecordUpTo(data, FieldNames, LeafValues, MaxEntries)
    /\ values = NoValue
    /\ config = NoConfig
    /\ setConfig = NoConfig
    /\ majorDimension = ""
    /\ result = NoValue
    /\ error = ""
    /\ mem = NoMem

ExtractObjectValues ==
    /\ pc = "call"
    /\ op = "extractObjectValues"
    /\ result' = extractObjectValues(data)
    /\ pc' = "done"
    /\ UNCHANGED <<op, data, config, setConfig, values, majorDimension, error, mem>>
    /\ UNCHANGED <<cellVars, nodeVars, msgVars, authVars>>

NextExtract == ExtractObjectValues

SpecExtract == InitExtract /\ [][NextExtract]_vars

ExtractDone == pc = "done" /\ op = "extractObjectValues"

\* The values extract stores as they are: every array, null and primitive,
\* and the records it does not take for nested objects (line 174).
IsLeaf(v) == ~IsPlainObject(v) \/ ~LengthUndefined(v)

\* The leaves of a record in depth-first order of its entries, each with the
\* names on the way to it.
RECURSIVE LeavesOf(_)
LeavesOf(rec) ==
    LET e == Elems(rec)
        Under(i) ==
            IF IsLeaf(e[i][2]) THEN <<[path |-> <<e[i][1]>>, leaf |-> e[i][2]]>>
            ELSE LET sub == LeavesOf(e[i][2])
                 IN  [k \in DOMAIN sub |->
                        [path |-> <<e[i][1]>> \o sub[k].path, leaf |-> sub[k].leaf]]
        RECURSIVE Upto(_)
        Upto(n) == IF n = 0 THEN <<>> ELSE Upto(n - 1) \o Under(n)
    IN Upto(Len(e))

\* The names of a path joined with '.'.
RECURSIVE Dotted(_)
Dotted(path) == IF Len(path) = 1 THEN path[1] ELSE path[1] \o Dotted(Tail(path))

\* C10: extractObjectValues returns keys and values of equal length; keys[i]
\* is the dotted path of the i-th leaf in depth-first declaration order and
\* values[i] is that leaf as it is; arrays, null and primitives are leaves;
\* the empty record gives two empty lists.
C10_ExtractLeaves ==
    ExtractDone =>
        LET leaves == LeavesOf(data)
        IN  /\ Len(result.keys) = Len(result.values)
            /\ Len(result.keys) = Len(leaves)
            /\ \A i \in DOMAIN leaves :
                  /\ result.keys[i] = Dotted(leaves[i].path)
                  /\ result.values[i] = leaves[i].leaf
            /\ \A i \in DOMAIN result.values :
                  Tag(result.values[i]) \in {"array", "null", "string", "number"}
                      \/ ~LengthUndefined(result.values[i])
            /\ (data = Obj(<<>>) => result = [keys |-> <<>>, values |-> <<>>])

\* A leaf inside a nested record, after a leaf of the record itself.
C10_Witness ==
    /\ ExtractDone
    /\ Len(result.keys) = 2
    /\ result.keys[1] = <<"b">>
    /\ result.keys[2] = <<"a", "b">>
    /\ IsArray(result.values[1])
    /\ result.values[2] = Null

----------------------------------------------------------------------------
(* Writing a payload: transform(data, config) *)

InitWrite ==
    /\ pc = "call"
    /\ NoCell
    /\ NoNode
    /\ NoMsg
    /\ NoAuth
    /\ op = "transform"
    /\ data \in WriteInputs(MaxItems)
    /\ values = NoValue
    /\ config = NoConfig
    /\ setConfig = NoConfig
    /\ majorDimension = ""
    /\ result = NoValue
    /\ error = ""
    /\ mem = NoMem

Transform(cfg) ==
    /\ pc = "call"
    /\ op = "transform"
    /\ config' = cfg
    /\ LET r == transform(data, cfg)
       IN  result' = r.value /\ error' = r.error
    /\ pc' = "done"
    /\ UNCHANGED <<op, data, setConfig, values, majorDimension, mem>>
    /\ UNCHANGED <<cellVars, nodeVars, msgVars, authVars>>

NextWrite == \E cfg \in WriteConfigs : Transform(cfg)

SpecWrite == InitWrite /\ [][NextWrite]_vars

----------------------------------------------------------------------------
(* Writing an array of records and reading the cells back *)

InitRoundTrip ==
    /\ pc = "call"
    /\ NoCell
    /\ NoNode
    /\ NoMsg
    /\ NoAuth
    /\ op = "transform"
    /\ data \in RoundTripInputs(MaxItems)
    /\ values = NoValue
    /\ config = NoConfig
    /\ setConfig = NoConfig
    /\ majorDimension = ""
    /\ result = NoValue
    /\ error = ""
    /\ mem = NoMem

\* The cells transform returned are written, and a read of the range answers
\* with them.
ReadBack ==
    /\ pc = "done"
    /\ op = "transform"
    /\ error = ""
    /\ values' = result
    /\ setConfig' = config
    /\ op' = "transformGetResponse"
    /\ pc' = "call"
    /\ result' = NoValue
    /\ UNCHANGED <<data, config, majorDimension, error, mem>>
    /\ UNCHANGED <<cellVars, nodeVars, msgVars, authVars>>

NextRoundTrip ==
    \/ \E cfg \in RoundTripConfigs : Transform(cfg)
    \/ ReadBack
    \/ \E cfg \in ReadConfigs, md \in MajorDimensions : TransformGetResponse(cfg, md)

SpecRoundTrip == InitRoundTrip /\ [][NextRoundTrip]_vars

----------------------------------------------------------------------------
(* Properties of transform *)

WriteDone == pc = "done" /\ op = "transform"

Unsupported == "Unsupported data format"

\* A list of records that is not empty.
IsRecordSeq(e) == e # <<>> /\ \A i \in DOMAIN e : IsPlainObject(e[i])

RecordArrayInput == IsArray(data) /\ IsRecordSeq(Elems(data))

\* A map of key to record that is not empty.
RecordMapInput ==
    /\ IsPlainObject(data)
    /\ IsRecordSeq([i \in DOMAIN Elems(data) |-> Elems(data)[i][2]])

\* The flattening of a record: the dotted paths of its leaves and the leaves.
FlatKeys(rec)   == [i \in DOMAIN LeavesOf(rec) |-> Dotted(LeavesOf(rec)[i].path)]
FlatValues(rec) == [i \in DOMAIN LeavesOf(rec) |-> LeavesOf(rec)[i].leaf]

\* The values of the fields of a list that a record's flattening holds, in
\* the order of the list.
FieldsPresent(rec, fields) ==
    LET keys == FlatKeys(rec)
        Held(f) == f \in Range(keys)
        present == SelectSeq(fields, Held)
    IN  [k \in DOMAIN present |->
            FlatValues(rec)[CHOOSE i \in DOMAIN keys : keys[i] = present[k]]]

\* The header row is written: method 'new' with the line header set.
HeaderRowAsked == config.method = "new" /\ config.line

\* The node names its fields: fields is not 'all' and the list starts with a
\* name.
ExplicitFieldList ==
    config.fields # "all" /\ config.selfields # <<>> /\ config.selfields[1] # <<"">>

C6_SelectedFields ==
    (WriteDone /\ RecordArrayInput /\ ExplicitFieldList) =>
        /\ error = ""
        /\ IsArray(result)
        /\ LET recs == Elems(data)
               rows == Elems(result)
               off  == IF HeaderRowAsked THEN 1 ELSE 0
           IN  /\ Len(rows) = Len(recs) + off
               /\ \A i \in DOMAIN recs :
                     /\ rows[i + off] = Arr(FieldsPresent(recs[i], config.selfields))
                     /\ (\A k \in DOMAIN config.selfields :
                            config.selfields[k] \notin Range(FlatKeys(recs[i])))
                        => rows[i + off] = Arr(<<>>)

\* The list a.b, c: the first record has a.b only, the second neither.
C6_Witness ==
    /\ WriteDone
    /\ data = Arr(<<RecN, RecA>>)
    /\ config.fields # "all"
    /\ config.selfields = <<<<"a", "b">>, <<"c">>>>
    /\ result = Arr(<<Arr(<<Num("1")>>), Arr(<<>>)>>)

\* The first cell of data row i is the key of entry i, below the header row
\* when there is one, which then starts with 'Elements'.
RowsCarryLabels(hasHeader) ==
    LET keys == ObjKeys(data)
        rows == Elems(result)
        off  == IF hasHeader THEN 1 ELSE 0
    IN  /\ Len(rows) = Len(keys) + off
        /\ \A i \in DOMAIN keys :
              Elems(rows[i + off]) # <<>> /\ Elems(rows[i + off])[1] = Str(keys[i])
        /\ hasHeader => /\ Elems(rows[1]) # <<>>
                        /\ Elems(rows[1])[1] = Str(<<"Elements">>)

\* The row of a record under the node's field selection, without a label.
PlainRow(rec) ==
    IF config.fields = "all" THEN Arr(FlatValues(rec))
    ELSE Arr(FieldsPresent(rec, config.selfields))

\* C7 as stated: every non-empty map of key to record encoded with the
\* column header set gives rows that start with their keys, under a header
\* row that starts with 'Elements' when the line header is set as well.
C7_LabelsUnderAnyMethod ==
    (WriteDone /\ RecordMapInput /\ config.column) =>
        /\ error = ""
        /\ IsArray(result)
        /\ RowsCarryLabels(config.line)

\* C7, amended: a map with an entry named length is refused as an
\* unsupported format; any other non-empty map of key to record, encoded with
\* the column header set, gets its labels when method is 'new' and the fields
\* are 'all' or an explicit list: every data row starts with its key, and
\* with the line header set the header row comes first and starts with
\* 'Elements'. With another method the rows carry neither labels nor a header
\* row.
C7_LabelsWhenNew ==
    (WriteDone /\ RecordMapInput /\ config.column) =>
        IF HasKey(data, <<"length">>)
        THEN error = Unsupported /\ result = NoValue
        ELSE /\ error = ""
             /\ IsArray(result)
             /\ (config.method = "new" /\ (config.fields = "all" \/ ExplicitFieldList))
                    => RowsCarryLabels(config.line)
             /\ (config.method # "new" /\ (config.fields = "all" \/ ExplicitFieldList))
                    => result = Arr([i \in DOMAIN Elems(data) |->
                                        PlainRow(Elems(data)[i][2])])

\* Two entries under both headers.
C7_Witness ==
    /\ WriteDone
    /\ data = Obj(<<<<<<"r2">>, RecA>>, <<<<"r1">>, RecN>>>>)
    /\ config.fields = "all"
    /\ result = Arr(<<Arr(<<Str(<<"Elements">>), Str(<<"a">>), Str(<<"b">>)>>),
                      Arr(<<Str(<<"r2">>), Num("1"), Str(<<"x">>)>>),
                      Arr(<<Str(<<"r1">>), Num("1")>>)>>)

\* The primitives of JavaScript but null, and all of them.
NonNullPrimitiveTags == {"string", "number", "boolean", "undefined"}
PrimitiveTags        == NonNullPrimitiveTags \cup {"null"}

\* An array that is not empty and starts with an array comes back as it is.
GridPassesThrough ==
    (IsArray(data) /\ Elems(data) # <<>> /\ IsArray(Elems(data)[1]))
        => error = "" /\ result = data

IsScalar(v) == Tag(v) \in {"string", "number", "boolean"}

SupportedShape ==
    \/ IsScalar(data)
    \/ IsArray(data) /\ Elems(data) # <<>> /\ IsArray(Elems(data)[1])
    \/ IsArray(data) /\ Len(Elems(data)) = 1 /\ IsScalar(Elems(data)[1])
    \/ RecordArrayInput
    \/ RecordMapInput

----------------------------------------------------------------------------
(* Properties of writing and reading back *)

ReadBackDone == pc = "done" /\ op = "transformGetResponse"

\* Two records with the same fields and the same value at each.
SameRecord(r1, r2) ==
    /\ IsPlainObject(r1) /\ IsPlainObject(r2)
    /\ KeySet(r1) = KeySet(r2)
    /\ \A k \in KeySet(r1) : ObjGet(r1, k) = ObjGet(r2, k)

\* The records of an array share one field set.
SameFieldSet(e) == \A i, j \in DOMAIN e : KeySet(e[i]) = KeySet(e[j])

\* C1: a non-empty array of records that share their field set, encoded with
\* fields 'all', the line header and method 'new', and decoded with the line
\* header alone and major dimension ROWS, comes back as an array of records
\* equal to the input, record by record.
C1_RoundTrip ==
    (/\ ReadBackDone
     /\ RecordArrayInput /\ SameFieldSet(Elems(data))
     /\ setConfig.fields = "all" /\ setConfig.line /\ setConfig.method = "new"
     /\ config.line /\ ~config.column /\ majorDimension = "ROWS")
        => /\ error = ""
           /\ IsArray(result)
           /\ Len(Elems(result)) = Len(Elems(data))
           /\ \A i \in DOMAIN Elems(data) :
                 SameRecord(Elems(result)[i], Elems(data)[i])

----------------------------------------------------------------------------
(* Properties of extractObjectValues: records among the values *)

\* C11: extractObjectValues walks into every entry whose value is a record
\* that is neither null nor an array, a record with a field named length
\* included, so no element of the returned values is itself a record.
C11_NoRecordAmongValues ==
    ExtractDone =>
        \A i \in DOMAIN result.values : ~IsPlainObject(result.values[i])

----------------------------------------------------------------------------
(* Reading a grid whose arrays the caller still holds *)

\* The grids are those of SpecRead with one row and two cells less.
InitReadOnHeap ==
    /\ pc = "call"
    /\ NoCell
    /\ NoNode
    /\ NoMsg
    /\ NoAuth
    /\ op = "transformGetResponse"
    /\ data = NoValue
    /\ values \in Grids(MaxRows - 1, MaxCells - 2)
    /\ config = NoConfig
    /\ setConfig = NoConfig
    /\ majorDimension = ""
    /\ result = NoValue
    /\ error = ""
    /\ mem = [NoMem EXCEPT !.heap = Store(<<>>, values).heap,
                           !.arg = Store(<<>>, values).value]

TransformGetResponseOnHeap(cfg, md) ==
    /\ pc = "call"
    /\ op = "transformGetResponse"
    /\ mem.arg # NoValue
    /\ config' = cfg
    /\ majorDimension' = md
    /\ LET r == transformGetResponseOnHeap(mem.heap, mem.arg, cfg, md)
       IN  /\ mem' = [mem EXCEPT !.heap = r.heap, !.ret = r.value]
           /\ result' = IF r.error = "" THEN Deref(r.heap, r.value) ELSE NoValue
           /\ error' = r.error
    /\ pc' = "done"
    /\ UNCHANGED <<op, data, setConfig, values>>
    /\ UNCHANGED <<cellVars, nodeVars, msgVars, authVars>>

NextReadOnHeap ==
    \E cfg \in ReadConfigs, md \in MajorDimensions : TransformGetResponseOnHeap(cfg, md)

SpecReadOnHeap == InitReadOnHeap /\ [][NextReadOnHeap]_vars

\* The heap as it was when the grid was handed over.
HeapBefore == Store(<<>>, values).heap

\* The call by identity returns what the call by value returns.
ReadOnHeapAgrees ==
    ReadDone =>
        /\ error = transformGetResponse(values, config, majorDimension).error
        /\ result = transformGetResponse(values, config, majorDimension).value

\* C12: transformGetResponse never changes the grid it is handed: for every
\* grid of array rows, header configuration and major dimension, the grid and
\* each of its rows hold after the call what they held before, and the
\* returned value holds no row array of the grid, nor the grid itself.
C12_InputGridUntouched ==
    ReadDone =>
        LET before == HeapBefore
        IN  /\ SubSeq(mem.heap, 1, Len(before)) = before
            /\ Deref(mem.heap, mem.arg) = values
            /\ Reach(mem.heap, mem.ret) \cap DOMAIN before = {}

\* A single-header read: the rows returned under their labels were shifted,
\* the rows of the grid were not.
C12_Witness ==
    /\ ReadDone
    /\ config.line /\ ~config.column /\ majorDimension = "ROWS"
    /\ values = Arr(<<Arr(<<Str(<<"x">>), Num("1")>>), Arr(<<Num("1"), Str(<<"x">>)>>)>>)
    /\ result = Obj(<<<<<<"x">>, Arr(<<Num("1")>>)>>, <<<<"1">>, Arr(<<Str(<<"x">>)>>)>>>>)
    /\ Reach(mem.heap, mem.ret) # {}

----------------------------------------------------------------------------
(* Copying a grid and changing a row afterwards: copyValuesArray(values) *)

\* The rows of a grid handed to copyValuesArray: arrays of up to two cells,
\* and a row that is no array.
CopyRows == {Arr(r) : r \in SeqsUpTo(Cells, 2)} \cup {Str(<<"x">>)}

InitCopy ==
    /\ pc = "call"
    /\ NoCell
    /\ NoNode
    /\ NoMsg
    /\ NoAuth
    /\ op = "copyValuesArray"
    /\ data = NoValue
    /\ values \in {Arr(g) : g \in SeqsUpTo(CopyRows, MaxRows - 1)}
    /\ config = NoConfig
    /\ setConfig = NoConfig
    /\ majorDimension = ""
    /\ result = NoValue
    /\ error = ""
    /\ mem = [NoMem EXCEPT !.heap = Store(<<>>, values).heap,
                           !.arg = Store(<<>>, values).value]

CopyValuesArray ==
    /\ pc = "call"
    /\ op = "copyValuesArray"
    /\ LET c == copyValuesArrayOnHeap(mem.heap, mem.arg)
       IN  /\ mem' = [mem EXCEPT !.heap = c.heap, !.ret = c.value]
           /\ result' = Deref(c.heap, c.value)
    /\ pc' = "copied"
    /\ UNCHANGED <<op, data, config, setConfig, values, majorDimension, error>>
    /\ UNCHANGED <<cellVars, nodeVars, msgVars, authVars>>

\* The grid handed over ("values") or the one returned ("result").
GridOf(side) == IF side = "values" THEN mem.arg ELSE mem.ret

\* The addresses of the rows of a grid that are arrays.
ArrayRows(h, grid) == {Addr(h[Addr(grid)][i]) : i \in {k \in DOMAIN h[Addr(grid)] : IsRef(h[Addr(grid)][k])}}

\* Whoever holds one of the two grids changes one of its rows in place.
\* grid[i].push(cell)
RowPush(side, a) ==
    /\ pc = "copied"
    /\ a \in ArrayRows(mem.heap, GridOf(side))
    /\ mem' = [mem EXCEPT !.heap = Write(mem.heap, a, Append(mem.heap[a], Str(<<"pushed">>)))]
    /\ op' = "push"
    /\ pc' = "changed"
    /\ UNCHANGED <<data, config, setConfig, values, majorDimension, result, error>>
    /\ UNCHANGED <<cellVars, nodeVars, msgVars, authVars>>

\* grid[i].shift()
RowShift(side, a) ==
    /\ pc = "copied"
    /\ a \in ArrayRows(mem.heap, GridOf(side))
    /\ mem' = [mem EXCEPT !.heap = Write(mem.heap, a, ShiftRest(mem.heap[a]))]
    /\ op' = "shift"
    /\ pc' = "changed"
    /\ UNCHANGED <<data, config, setConfig, values, majorDimension, result, error>>
    /\ UNCHANGED <<cellVars, nodeVars, msgVars, authVars>>

\* grid[i][j] = cell, as input[0][0] = 999 of the test 'Creates deep copy'
RowAssign(side, a, j) ==
    /\ pc = "copied"
    /\ a \in ArrayRows(mem.heap, GridOf(side))
    /\ j \in DOMAIN mem.heap[a]
    /\ mem' = [mem EXCEPT !.heap = Write(mem.heap, a,
                                         [mem.heap[a] EXCEPT ![j] = Num("999")])]
    /\ op' = "assign"
    /\ pc' = "changed"
    /\ UNCHANGED <<data, config, setConfig, values, majorDimension, result, error>>
    /\ UNCHANGED <<cellVars, nodeVars, msgVars, authVars>>

NextCopy ==
    \/ CopyValuesArray
    \/ \E side \in {"values", "result"}, a \in DOMAIN mem.heap : RowPush(side, a)
    \/ \E side \in {"values", "result"}, a \in DOMAIN mem.heap : RowShift(side, a)
    \/ \E side \in {"values", "result"}, a \in DOMAIN mem.heap, j \in 1..2 :
          RowAssign(side, a, j)

SpecCopy == InitCopy /\ [][NextCopy]_vars

\* The copy is equal in value to the grid, is a new outer array, and shares
\* no array row with it.
CopyIsApart ==
    /\ Deref(mem.heap, mem.ret) = Deref(mem.heap, mem.arg)
    /\ Addr(mem.ret) # Addr(mem.arg)
    /\ ArrayRows(mem.heap, mem.ret) \cap ArrayRows(mem.heap, mem.arg) = {}

\* C13: copyValuesArray returns a grid equal in value to its argument, with a
\* new outer array and no array row that is an array row of the argument; a
\* later change in place to a row of either grid leaves the other grid as it
\* was.
C13_CopyIsolation ==
    [][/\ (pc = "call" /\ pc' = "copied") => CopyIsApart'
       /\ (pc = "copied" /\ pc' = "changed") =>
             /\ (\E a \in ArrayRows(mem.heap, mem.arg) : mem.heap'[a] # mem.heap[a])
                    => Deref(mem.heap', mem.ret) = Deref(mem.heap, mem.ret)
             /\ (\E a \in ArrayRows(mem.heap, mem.ret) : mem.heap'[a] # mem.heap[a])
                    => Deref(mem.heap', mem.arg) = Deref(mem.heap, mem.arg)
      ]_vars

\* A row of the argument was assigned to after the copy: the argument has
\* changed, the copy holds what the argument held.
C13_Witness ==
    /\ pc = "changed"
    /\ op = "assign"
    /\ Deref(mem.heap, mem.arg) # values
    /\ Deref(mem.heap, mem.ret) = values
    /\ Len(Elems(values)) = 2

----------------------------------------------------------------------------
(* Writing a payload whose arrays the caller still holds *)

InitWriteOnHeap ==
    /\ pc = "call"
    /\ NoCell
    /\ NoNode
    /\ NoMsg
    /\ NoAuth
    /\ op = "transform"
    /\ data \in WriteInputs(MaxItems)
    /\ values = NoValue
    /\ config = NoConfig
    /\ setConfig = NoConfig
    /\ majorDimension = ""
    /\ result = NoValue
    /\ error = ""
    /\ mem = [NoMem EXCEPT !.heap = Store(<<>>, data).heap,
                           !.arg = Store(<<>>, data).value]

\* What the call leaves: r is what transform did, sel the config's list.
Transformed(r, sel) ==
    /\ mem' = [mem EXCEPT !.heap = r.heap, !.fields = sel, !.ret = r.value]
    /\ result' = IF r.error = "" THEN Deref(r.heap, r.value) ELSE NoValue
    /\ error' = r.error

\* transform called with the config's list of fields at the address sel.
TransformWith(sel, cfg) ==
    Transformed(transformOnHeap(sel.heap, mem.arg, cfg, sel.value), sel.value)

\* The node's config holds its list of fields as an array of its own.
TransformOnHeap(cfg) ==
    /\ pc = "call"
    /\ op = "transform"
    /\ mem.arg # NoValue
    /\ config' = cfg
    /\ TransformWith(Alloc(mem.heap, TextCells(cfg.selfields)), cfg)
    /\ pc' = "done"
    /\ UNCHANGED <<op, data, setConfig, values, majorDimension>>
    /\ UNCHANGED <<cellVars, nodeVars, msgVars, authVars>>

NextWriteOnHeap == \E cfg \in WriteConfigs : TransformOnHeap(cfg)

SpecWriteOnHeap == InitWriteOnHeap /\ [][NextWriteOnHeap]_vars

\* The heap as it was when transform was called: the arrays of data, then
\* the list of fields.
HeapBeforeWrite == Alloc(Store(<<>>, data).heap, TextCells(config.selfields)).heap

\* The call by identity returns what the call by value returns.
WriteOnHeapAgrees ==
    WriteDone =>
        /\ error = transform(data, config).error
        /\ result = transform(data, config).value

\* C14: the grid transform returns shares no array with its input: neither
\* the returned outer array nor any returned row is the input or one of its
\* rows.
C14_ReturnsNoInputArray ==
    (WriteDone /\ error = "") =>
        LET outer == Addr(mem.ret)
            rows  == ArrayRows(mem.heap, mem.ret)
        IN  ({outer} \cup rows) \cap Reach(mem.heap, mem.arg) = {}

\* C15: transform changes neither of its arguments: for every input and
\* every config, the input and the config's list of fields hold after the
\* call what they held before, the header row of an explicit list under
\* 'Elements' included.
C15_ArgumentsUntouched ==
    WriteDone =>
        LET before == HeapBeforeWrite
        IN  /\ SubSeq(mem.heap, 1, Len(before)) = before
            /\ Deref(mem.heap, mem.arg) = data
            /\ Deref(mem.heap, mem.fields) = Arr(TextCells(config.selfields))

\* A map under both headers and an explicit list: the header row starts with
\* 'Elements' and goes on with the list, which itself is as it was.
C15_Witness ==
    /\ WriteDone
    /\ data = Obj(<<<<<<"r1">>, RecA>>>>)
    /\ config.selfields = <<<<"b">>, <<"a">>>>
    /\ result = Arr(<<Arr(<<Str(<<"Elements">>), Str(<<"b">>), Str(<<"a">>)>>),
                      Arr(<<Str(<<"r1">>), Str(<<"x">>), Num("1")>>)>>)
    /\ Deref(mem.heap, mem.fields) = Arr(<<Str(<<"b">>), Str(<<"a">>)>>)

----------------------------------------------------------------------------
(* Looking a cell up by its labels *)

\* The cells of the grids a lookup is run on: the empty string, and a string
\* and a number of the same text.
LookupCells == {Str(<<"">>), Str(<<"1">>), Num("1")}

\* The grids of at most rows rows and cells cells over LookupCells.
RECURSIVE LookupGridsWithin(_, _)
LookupGridsWithin(rows, cells) ==
    IF rows = 0 THEN {<<>>}
    ELSE {<<>>} \cup
         UNION {{<<Arr(r)>> \o g : g \in LookupGridsWithin(rows - 1, cells - Len(r))} :
                   r \in SeqsUpTo(LookupCells, Min(MaxCols, cells))}

LookupGrids(rows, cells) == {Arr(g) : g \in LookupGridsWithin(rows, cells)}

\* The labels a lookup asks for.
Labels == {Str(<<"1">>), Num("1")}

InitCell ==
    /\ pc = "call"
    /\ op = "transformCellResponse"
    /\ values \in LookupGrids(MaxRows, MaxCells) \cup {Null, Undefined}
    /\ data = NoValue
    /\ config = NoConfig
    /\ setConfig = NoConfig
    /\ majorDimension = ""
    /\ result = NoValue
    /\ error = ""
    /\ mem = NoMem
    /\ NoCell
    /\ NoNode
    /\ NoMsg
    /\ NoAuth

TransformCellResponse(l, c) ==
    /\ pc = "call"
    /\ op = "transformCellResponse"
    /\ cell_l' = l
    /\ cell_c' = c
    /\ result' = transformCellResponse(values, l, c)
    /\ pc' = "done"
    /\ UNCHANGED <<op, data, config, setConfig, values, majorDimension, error, mem>>
    /\ UNCHANGED <<nodeVars, msgVars, authVars>>

NextCell == \E l \in Labels, c \in Labels : TransformCellResponse(l, c)

SpecCell == InitCell /\ [][NextCell]_vars

CellDone == pc = "done" /\ op = "transformCellResponse"

\* values is a grid with at least one row.
HasRows == IsArray(values) /\ GridHeight >= 1

\* The columns of row 0 that hold cell_c, and the rows after row 0 whose
\* first cell is cell_l, as 1-based positions.
ColumnsLabelled == {j \in 1..Len(GridRow(1)) : GridRow(1)[j] = cell_c}
RowsLabelled    == {i \in 2..GridHeight : Len(GridRow(i)) >= 1 /\ GridRow(i)[1] = cell_l}

\* Both labels are in the grid.
PairExists == HasRows /\ ColumnsLabelled # {} /\ RowsLabelled # {}

\* The least member of a non-empty set of positions.
First(S) == CHOOSE i \in S : \A k \in S : i <= k

\* The pair's cell is in its row.
CellPresent == PairExists /\ First(ColumnsLabelled) <= Len(GridRow(First(RowsLabelled)))

\* The cell at the first column labelled cell_c of the first row labelled cell_l.
TheCell == GridRow(First(RowsLabelled))[First(ColumnsLabelled)]

\* C17: transformCellResponse(values, cell_l, cell_c) returns the cell at the
\* index where row 0 first holds cell_c, of the first row after row 0 whose
\* first cell is cell_l, when that cell is there and is not the empty
\* string; it returns 'Not found' when the grid is missing or empty, when
\* cell_c is not in row 0, when no row starts with cell_l, and when the cell
\* is missing or the empty string. It never throws.
C17_Lookup ==
    CellDone =>
        /\ error = ""
        /\ IF CellPresent /\ TheCell # Str(<<"">>)
           THEN result = TheCell
           ELSE result = NotFound

\* Two rows carry the label asked for and hold different cells under the
\* column asked for: the cell returned is the first row's.
C17_Witness ==
    /\ CellDone
    /\ Cardinality(RowsLabelled) = 2
    /\ ColumnsLabelled = {2}
    /\ \A i \in RowsLabelled : Len(GridRow(i)) = 2
    /\ \E i \in RowsLabelled : GridRow(i)[2] # TheCell
    /\ result = TheCell
    /\ result # NotFound

\* The pair's cell is in its row and is the empty string.
CellEmpty == CellPresent /\ TheCell = Str(<<"">>)

\* C18 as stated: 'Not found' tells that no such pair of labels exists, and
\* is not what transformCellResponse returns for a pair whose cell is there
\* but empty.
C18_NotFoundOnlyWithoutPair ==
    (CellDone /\ result = NotFound) => (~PairExists /\ ~CellEmpty)

\* C18: 'Not found' is a value returned, never an error thrown;
\* transformCellResponse returns it when the pair of labels is not in the
\* grid, and returns it as well for a pair whose cell is there but is the
\* empty string.
C18_NotFoundAlsoWhenEmpty ==
    CellDone =>
        /\ error = ""
        /\ ~PairExists => result = NotFound
        /\ CellEmpty => result = NotFound

\* Both labels are in the grid and the cell they name is the empty string.
C18_Witness ==
    /\ CellDone
    /\ CellEmpty
    /\ First(ColumnsLabelled) >= 2
    /\ result = NotFound

----------------------------------------------------------------------------
(* Nodes at work on one cache storage *)

\* The ranges of the nodes: a cell of a sheet, a sheet whose name is the
\* other's save field, and a cell of a sheet with a dot in its name.
Ranges == {<<"S", "!", "A1">>, <<"S", "_", "A1">>, <<"T", ".", "U", "!", "A1">>}

\* What the remote service answers a get with: no values, or a grid.
Responses ==
    {NoValue,
     Arr(<<>>),
     Arr(<<Arr(<<Str(<<"x">>)>>)>>),
     Arr(<<Arr(<<Str(<<"x">>), Num("1")>>), Arr(<<Num("1"), Str(<<"x">>)>>)>>)}

\* The configs of the nodes that read.
GetConfigs == ReadConfigs

\* The configs of the nodes that write, and what they are given to write.
SetConfigs == {[NoConfig EXCEPT !.fields = "all", !.method = m] : m \in Methods \cup {""}}

Payloads == {Null, Arr(<<>>), Arr(<<Arr(<<Num("1")>>)>>), Fn}

\* The storage is the object the input handler puts under the save field
\* when there is none.
InitNode ==
    /\ pc = "ready"
    /\ op = ""
    /\ data = NoValue
    /\ values = NoValue
    /\ config = NoConfig
    /\ setConfig = NoConfig
    /\ majorDimension = ""
    /\ result = NoValue
    /\ error = ""
    /\ mem = NoMem
    /\ NoCell
    /\ NoMsg
    /\ NoAuth
    /\ range = <<>>
    /\ saveLoc = Obj(<<>>)
    /\ calls = <<>>

\* What the input handler leaves behind for the message it was run on, from
\* its first line to its last: h is what the handler did.
Deliver(action, cfg, r, rows, resp, h) ==
    /\ op' = action
    /\ config' = cfg
    /\ range' = r
    /\ data' = rows
    /\ saveLoc' = h.saveLoc
    /\ calls' = h.calls
    /\ result' = h.payload
    /\ error' = h.error
    /\ values' = IF "get" \in Range(h.calls) THEN resp ELSE NoValue
    /\ majorDimension' =
          IF "get" \in Range(h.calls) THEN RequestedDimension(cfg)
          ELSE IF action = "get" THEN "false" ELSE ""
    /\ UNCHANGED <<pc, setConfig, mem>>
    /\ UNCHANGED <<cellVars, msgVars, authVars>>

\* A node whose action is get handles a message; the remote service would
\* answer resp.
Get(cfg, r, resp) ==
    /\ pc = "ready"
    /\ Deliver("get", cfg, r, NoValue, resp, inputGet(saveLoc, cfg, r, resp))

\* A node whose action is set handles a message that carries rows.
Set(cfg, r, rows) ==
    /\ pc = "ready"
    /\ Deliver("set", cfg, r, rows, NoValue, inputSet(saveLoc, cfg, r, rows))

\* A node whose action is clear handles a message.
Clear(r) ==
    /\ pc = "ready"
    /\ Deliver("clear", NoConfig, r, NoValue, NoValue, inputClear(saveLoc, NoConfig, r))

NextNode ==
    \/ \E cfg \in GetConfigs, r \in Ranges, resp \in Responses : Get(cfg, r, resp)
    \/ \E cfg \in SetConfigs, r \in Ranges, rows \in Payloads : Set(cfg, r, rows)
    \/ \E r \in Ranges : Clear(r)

SpecNode == InitNode /\ [][NextNode]_vars

\* The storage holds a grid of at least one row under the save field f.
HoldsGrid(storage, f) ==
    LET v == Walk(storage, Split(f))
    IN  IsArray(v) /\ Len(Elems(v)) > 0

\* The grid a storage holds under the save field f.
GridHeld(storage, f) == Walk(storage, Split(f))

\* C19: once a get has fetched a grid of at least one row for a range and
\* has stored it, every later get of that range on the same storage is
\* answered from the storage, without a get call to the remote service, until
\* the entry is invalidated. As steps: a get that called the remote service
\* and was answered a grid with rows leaves that grid under the range's save
\* field; an entry stays as it is through every message but a clear of its
\* save field; a get of a range whose entry is there makes no call and
\* returns the entry decoded.
C19_CachedGets ==
    [][\A r \in Ranges :
          LET f == saveFieldOf(r)
          IN  /\ ( /\ op' = "get" /\ range' = r /\ calls' = <<"get">>
                   /\ IsArray(values') /\ Len(Elems(values')) > 0 )
                     => (HoldsGrid(saveLoc', f) /\ GridHeld(saveLoc', f) = values')
              /\ (HoldsGrid(saveLoc, f) /\ ~(op' = "clear" /\ saveFieldOf(range') = f))
                     => GridHeld(saveLoc', f) = GridHeld(saveLoc, f)
              /\ (HoldsGrid(saveLoc, f) /\ op' = "get" /\ range' = r)
                     => /\ calls' = <<>>
                        /\ error' = ""
                        /\ result' = transformGetResponse(GridHeld(saveLoc, f),
                                                          config', "false").value
      ]_vars

\* A get answered without a call, from a grid of two rows kept in the storage.
C19_Witness ==
    /\ op = "get"
    /\ calls = <<>>
    /\ error = ""
    /\ HoldsGrid(saveLoc, saveFieldOf(range))
    /\ Len(Elems(GridHeld(saveLoc, saveFieldOf(range)))) = 2
    /\ config.line /\ ~config.column
    /\ IsArray(result)

\* C20: a write invalidates the cache: once a set (append, update or new) on
\* a range has been sent, the storage holds no entry under the range's save
\* field, so that the next get of the range calls the remote service.
C20_SetInvalidates ==
    [][(op' = "set" /\ error' = "" /\ calls' # <<>>)
          => ~HoldsGrid(saveLoc', saveFieldOf(range'))]_vars

----------------------------------------------------------------------------
(* Messages through the input handler, from validation to the outputs *)

\* What a node has for a service account.
Auths == {"missing", "uninitialised", "ready"}

\* The spreadsheets of the nodes, and what else a node is given for an id:
\* nothing, an id too short, an id with a space.
SpreadsheetIds == {<<"1BxiMVs0XRA5nFMdKvBdBZjgmUUqptlbs74OgvE2upms">>,
                   <<"1mHIWnDvW9cALRMq9OdNfRwjAthCUFUOLPC1Mc1MeXAM">>}
OtherIds == {<<>>, <<"abc123">>,
             <<"1BxiMVs0XRA5nFMdKvBdBZjgmUUqptlbs74OgvE2upms", " ", "abc123">>}

\* The ranges of the nodes: a cell of a sheet, and a sheet by its name; and
\* what else a node is given for a range: nothing, two '!', no cell range
\* after the '!'.
SheetRanges == {<<"S", "!", "A1">>, <<"constructor">>}
OtherRanges == {<<>>, <<"S", "!", "A1", "!", "A1">>, <<"S", "!", "abc123">>}

\* The messages with something amiss in what validation looks at before the
\* input data: the service account, the id, the range.
Amiss ==
    ((Auths \X (SpreadsheetIds \cup OtherIds)) \X (SheetRanges \cup OtherRanges))
        \ (({"ready"} \X SpreadsheetIds) \X SheetRanges)

\* The grids the remote service holds for a range of a spreadsheet name the
\* two in their cells.
Origin(id, r) == Str(id \o r)

Answers(id, r) ==
    {NoValue,
     Arr(<<Arr(<<Origin(id, r)>>)>>),
     Arr(<<Arr(<<Origin(id, r), Num("1")>>), Arr(<<Num("1"), Origin(id, r)>>)>>)}

\* The configs of the nodes that read: no header, and a line header with
\* the direction left unset.
InputGetConfigs == {NoConfig, [NoConfig EXCEPT !.line = TRUE]}

InitInput ==
    /\ pc = "ready"
    /\ op = ""
    /\ data = NoValue
    /\ values = NoValue
    /\ config = NoConfig
    /\ setConfig = NoConfig
    /\ majorDimension = ""
    /\ result = NoValue
    /\ error = ""
    /\ mem = NoMem
    /\ NoCell
    /\ NoMsg
    /\ NoAuth
    /\ range = <<>>
    /\ saveLoc = Obj(<<>>)
    /\ calls = <<>>

\* What the listener leaves behind for the message it was run on: o is what
\* it did.
Delivered(a, action, cfg, id, r, rows, answer, o) ==
    /\ op' = ActionOf(action)
    /\ auth' = a
    /\ config' = cfg
    /\ spreadsheetId' = id
    /\ range' = r
    /\ data' = rows
    /\ saveLoc' = o.saveLoc
    /\ calls' = o.calls
    /\ result' = o.payload
    /\ error' = o.error
    /\ sends' = o.sends
    /\ status' = o.status
    /\ values' = IF "get" \in Range(o.calls) THEN answer ELSE NoValue
    /\ majorDimension' = ""
    /\ UNCHANGED <<pc, setConfig, mem>>
    /\ UNCHANGED <<cellVars, authVars>>

\* A message at a node whose action is get; the call named failing fails,
\* and a get that does not fail is answered answer.
GetMessage(cfg, id, r, failing, answer) ==
    /\ pc = "ready"
    /\ Delivered("ready", "get", cfg, id, r, NoValue, answer,
                 onInput(input(saveLoc, "ready", "get", cfg, id, r, NoValue,
                               Remote(failing, answer))))

\* A message that carries rows at a node whose action is set, or is not set.
SetMessage(action, cfg, id, r, rows, failing) ==
    /\ pc = "ready"
    /\ Delivered("ready", action, cfg, id, r, rows, NoValue,
                 onInput(input(saveLoc, "ready", action, cfg, id, r, rows,
                               Remote(failing, NoValue))))

\* A message at a node whose action is clear.
ClearMessage(id, r, failing) ==
    /\ pc = "ready"
    /\ Delivered("ready", "clear", NoConfig, id, r, NoValue, NoValue,
                 onInput(input(saveLoc, "ready", "clear", NoConfig, id, r, NoValue,
                               Remote(failing, NoValue))))

\* A message at a node whose action is cell.
CellMessage(id, r) ==
    /\ pc = "ready"
    /\ Delivered("ready", "cell", NoConfig, id, r, NoValue, NoValue,
                 onInput(input(saveLoc, "ready", "cell", NoConfig, id, r, NoValue,
                               Remote("", NoValue))))

\* A message at a node with something amiss; the service would carry out
\* every call.
AmissMessage(action, a, id, r, rows) ==
    /\ pc = "ready"
    /\ Delivered(a, action, NoConfig, id, r, rows, NoValue,
                 onInput(input(saveLoc, a, action, NoConfig, id, r, rows,
                               Remote("", NoValue))))

NextInput ==
    \/ \E cfg \in InputGetConfigs, id \in SpreadsheetIds, r \in SheetRanges,
          failing \in {"", "authenticate", "get"} :
          \E answer \in Answers(id, r) : GetMessage(cfg, id, r, failing, answer)
    \/ \E action \in {"", "set"}, cfg \in SetConfigs, id \in SpreadsheetIds,
          r \in SheetRanges, rows \in Payloads,
          failing \in {"", "authenticate", "clear", "set"} :
          SetMessage(action, cfg, id, r, rows, failing)
    \/ \E id \in SpreadsheetIds, r \in SheetRanges,
          failing \in {"", "authenticate", "clear"} : ClearMessage(id, r, failing)
    \/ \E id \in SpreadsheetIds, r \in SheetRanges : CellMessage(id, r)
    \/ \E action \in {"get", "set", "clear"}, m \in Amiss :
          AmissMessage(action, m[1][1], m[1][2], m[2], Arr(<<Arr(<<Num("1")>>)>>))

SpecInput == InitInput /\ [][NextInput]_vars

\* The message was sent on the success output, and on no other.
SentOn(out) == sends = <<out>>

\* The message got through validation and authentication.
Authenticated == calls # <<>> /\ error # "Authentication failed"

\* C21: after a clear of a range has succeeded, the storage holds no entry
\* for the range (has returns false), and the next get of the range calls the
\* remote service. As steps: a clear that is sent on the success output
\* leaves a storage in which has is false for the range's save field; and a
\* get of that range that follows it on the same spreadsheet, once
\* authenticated, makes a get call.
C21_ClearInvalidates ==
    [][/\ (op' = "clear" /\ sends' = <<"success">>)
              => ~Cache_has(saveLoc', saveFieldOf(range'))
       /\ ( /\ op = "clear" /\ SentOn("success")
            /\ op' = "get" /\ range' = range /\ spreadsheetId' = spreadsheetId
            /\ Authenticated' )
              => "get" \in Range(calls')
      ]_vars

\* A message has been handled.
InputDone == op # ""

\* The message handled is one validation is to stop: the node has no service
\* account that can authenticate, the id or the range is not one of a
\* spreadsheet's, or a set comes without input data.
Unfit ==
    \/ auth # "ready"
    \/ spreadsheetId \notin SpreadsheetIds
    \/ range \notin SheetRanges
    \/ op = "set" /\ data \in {Null, Undefined}

\* C22: every input is validated before any API request: for a message that
\* fails the authentication, spreadsheet id, range or required-field
\* validation, no authenticate call and no remote get, set or clear call is
\* made; the message is reported as a validation error on the error output.
C22_ValidatedBeforeAnyCall ==
    (InputDone /\ Unfit) =>
        /\ calls = <<>>
        /\ SentOn("error")
        /\ status[2] = "VALIDATION_ERROR"

\* A set under the method new of a message without input data, at a node
\* with its service account, id and range in order: no call, not even the
\* clear that comes first under that method.
C22_Witness ==
    /\ op = "set"
    /\ auth = "ready"
    /\ spreadsheetId \in SpreadsheetIds
    /\ range \in SheetRanges
    /\ config.method = "new"
    /\ data = Null
    /\ calls = <<>>
    /\ status = <<"VALIDATING", "VALIDATION_ERROR">>

\* The message handled was a set under the method new.
SetNew == op = "set" /\ config.method = "new"

\* C23: for a set under the method new the remote clear of the range is
\* issued, and is back, before the remote write is issued; the write is an
\* update, never an append; and no write is issued when the clear fails. The
\* calls of a message are in the order they were made, and one is made only
\* when the one before it is back.
C23_ClearThenUpdate ==
    SetNew =>
        /\ calls \in {<<>>, <<"authenticate">>, <<"authenticate", "clear">>,
                      <<"authenticate", "clear", "update">>}
        /\ error = "clear failed" => calls = <<"authenticate", "clear">>
        /\ SentOn("success") => calls = <<"authenticate", "clear", "update">>

\* A set under the method new whose clear and write were both carried out.
C23_Witness ==
    /\ SetNew
    /\ SentOn("success")
    /\ calls = <<"authenticate", "clear", "update">>

----------------------------------------------------------------------------
(* The service account node: nodes/google-service-account.js *)

\* Times are in milliseconds; the clock of the model goes by the minute.
Minute   == 60 * 1000
MaxTicks == 8

\* const bufferMs of node.authenticate
bufferMs == 5 * 60 * 1000

\* node.jwtClient, and node.token = { type, value, expires }: a token is told
\* by its expiry, 0 when the tokens came without an expiry_date.
JwtClient      == <<"client", <<>>>>
Token(expires) == <<"token", expires>>
Expires(t)     == t[2]

\* What authenticate leaves: node.client, node.token, the calls made to the
\* JWT client, the client returned and the error thrown.
AfterAuthenticate(c, t, made, returned, e) ==
    [client |-> c, token |-> t, calls |-> made, result |-> returned, error |-> e]

\* authenticateAsync: authorize is called; tokens is what it answers, Failed
\* when it throws.
authenticateAsync(c, t, tokens) ==
    IF tokens = Failed
    THEN AfterAuthenticate(c, t, <<"authorize">>, NoValue, "JWT authorization failed")
    ELSE AfterAuthenticate(JwtClient, Token(Expires(tokens)), <<"authorize">>, JwtClient, "")

\* An authenticate that takes a token for valid until it expires.
authenticate_NoBuffer(c, t, n, tokens) ==
    IF /\ Tag(c) # "none" /\ Tag(t) # "none"
       /\ Expires(t) # 0 /\ Expires(t) > n
    THEN AfterAuthenticate(c, t, <<>>, c, "")
    ELSE authenticateAsync(c, t, tokens)

\* node.authenticate() at the time n.
authenticate(c, t, n, tokens) ==
    IF /\ Tag(c) # "none" /\ Tag(t) # "none"
       /\ Expires(t) # 0 /\ (Expires(t) - bufferMs) > n
    THEN AfterAuthenticate(c, t, <<>>, c, "")
    ELSE authenticateAsync(c, t, tokens)

\* The tokens authorize answers with at the time n: without an expiry_date,
\* or with one some minutes ahead.
Lifetimes == {4, 5, 6, 7}

TokensAt(n) == {Token(0)} \cup {Token(n + k * Minute) : k \in Lifetimes}

InitAuth ==
    /\ pc = "ready"
    /\ op = ""
    /\ data = NoValue
    /\ values = NoValue
    /\ config = NoConfig
    /\ setConfig = NoConfig
    /\ majorDimension = ""
    /\ result = NoValue
    /\ error = ""
    /\ mem = NoMem
    /\ NoCell
    /\ NoNode
    /\ NoMsg
    /\ client = NoValue
    /\ token = NoValue
    /\ now = Minute

\* What a call of authenticate leaves behind: a is what it did, tokens what
\* authorize would answer; values keeps the token the call found.
AuthenticateWith(tokens, a) ==
    /\ op' = "authenticate"
    /\ client' = a.client
    /\ token' = a.token
    /\ calls' = a.calls
    /\ result' = a.result
    /\ error' = a.error
    /\ data' = IF a.calls = <<>> THEN NoValue ELSE tokens
    /\ values' = token
    /\ UNCHANGED <<pc, config, setConfig, majorDimension, mem, now, range, saveLoc>>
    /\ UNCHANGED <<cellVars, msgVars>>

\* A node calls node.authenticate().
Authenticate(tokens) ==
    /\ pc = "ready"
    /\ AuthenticateWith(tokens, authenticate(client, token, now, tokens))

\* The listener of the JWT client's tokens event: the client has refreshed
\* its tokens by itself while it was used.
OnTokens(tokens) ==
    /\ pc = "ready"
    /\ Tag(client) # "none"
    /\ op' = "tokens"
    /\ token' = tokens
    /\ data' = tokens
    /\ calls' = <<>>
    /\ result' = NoValue
    /\ error' = ""
    /\ UNCHANGED <<pc, config, setConfig, values, majorDimension, mem, now, client,
                   range, saveLoc>>
    /\ UNCHANGED <<cellVars, msgVars>>

\* A minute goes by.
Tick ==
    /\ pc = "ready"
    /\ now < MaxTicks * Minute
    /\ now' = now + Minute
    /\ op' = "tick"
    /\ calls' = <<>>
    /\ result' = NoValue
    /\ error' = ""
    /\ data' = NoValue
    /\ UNCHANGED <<pc, config, setConfig, values, majorDimension, mem, client, token,
                   range, saveLoc>>
    /\ UNCHANGED <<cellVars, msgVars>>

NextAuth ==
    \/ \E tokens \in TokensAt(now) \cup {Failed} : Authenticate(tokens)
    \/ \E tokens \in TokensAt(now) : OnTokens(tokens)
    \/ Tick

SpecAuth == InitAuth /\ [][NextAuth]_vars

\* The node holds a client and a token whose expiry is more than five
\* minutes after the current time.
Fresh ==
    /\ Tag(client) = "client"
    /\ Tag(token) = "token"
    /\ Expires(token) > now + 5 * Minute

\* C24: authenticate returns the cached client without calling authorize
\* only when a cached client and a token exist and the token's expiry is more
\* than 5 minutes after the current time; in every other case (no token, no
\* expiry, an expiry within 5 minutes) it calls authorize, and when authorize
\* answers it replaces the cached token by the one answered before it
\* returns the client.
C24_RefreshedWhenExpired ==
    [][op' = "authenticate" =>
          IF Fresh
          THEN /\ calls' = <<>>
               /\ result' = client
               /\ error' = ""
               /\ UNCHANGED <<client, token>>
          ELSE /\ calls' = <<"authorize">>
               /\ error' = "" =>
                     /\ token' = data'
                     /\ client' = JwtClient
                     /\ result' = JwtClient
               /\ error' # "" => (result' = NoValue /\ UNCHANGED <<client, token>>)
      ]_vars

\* A token that expires in exactly five minutes has been replaced: authorize
\* was called though the token had not expired.
C24_Witness ==
    /\ op = "authenticate"
    /\ calls = <<"authorize">>
    /\ error = ""
    /\ Tag(values) = "token"
    /\ Expires(values) = now + 5 * Minute
    /\ Expires(token) = now + 7 * Minute

----------------------------------------------------------------------------
(* Records back from rows and field names: transformToObjects *)

\* A setNestedProperty that sets the whole path as one name.
setNestedProperty_Flat(obj, path, value) ==
    ObjSet(obj, <<path[Len(path)]>>, value)

\* setNestedProperty(obj, path, value): obj after it. path.split('.') is the
\* list of the path's segments; an object is made on the way wherever there
\* is none. A property set on an array on the way is none of its elements.
setNestedProperty(obj, path, value) ==
    LET RECURSIVE Assign(_, _)
        Assign(current, keys) ==
            IF ~IsPlainObject(current) THEN current
            ELSE IF Len(keys) = 1 THEN ObjSet(current, <<keys[1]>>, value)
            ELSE LET child == ObjGet(current, <<Head(keys)>>)
                     next  == IF child = Null \/ TypeOf(child) # "object"
                              THEN Obj(<<>>) ELSE child
                 IN  ObjSet(current, <<Head(keys)>>, Assign(next, Tail(keys)))
    IN  Assign(obj, path)

\* The body of the loop over a row: obj after the cells 1..n of the row are
\* set under the fields of their places.
RECURSIVE RowObject(_, _, _)
RowObject(row, fields, n) ==
    IF n = 0 THEN Obj(<<>>)
    ELSE setNestedProperty(RowObject(row, fields, n - 1), fields[n][2], row[n])

\* path.split throws for the field of a cell beyond the fields and for a
\* field that is no string.
FieldsSplit(row, fields) ==
    \A i \in DOMAIN row : i \in DOMAIN fields /\ Tag(fields[i]) = "string"

\* transformToObjects(values, fields)
transformToObjects(vals, fields) ==
    IF Falsy(vals) \/ Elems(vals) = <<>> THEN Return(Arr(<<>>))
    ELSE IF Falsy(fields) \/ Elems(fields) = <<>> THEN Return(vals)
    ELSE IF \E i \in DOMAIN Elems(vals) : ~FieldsSplit(Elems(Elems(vals)[i]), Elems(fields))
    THEN Throw("Cannot read properties of undefined (reading 'split')")
    ELSE Return(Arr([i \in DOMAIN Elems(vals) |->
                        RowObject(Elems(Elems(vals)[i]), Elems(fields),
                                  Len(Elems(Elems(vals)[i])))]))

\* The records handed over: flat, nested, nested twice over; with a field
\* whose name has a dot; empty, and with an empty record inside; with null,
\* an array and a record with a length among the values.
RecM  == Obj(<<<<<<"u">>, Obj(<<<<<<"x">>, Num("1")>>, <<<<"y">>, Str(<<"x">>)>>>>)>>,
               <<<<"v">>, Num("2")>>>>)                              \* {u: {x: 1, y: 'x'}, v: 2}
RecM2 == Obj(<<<<<<"u">>, Obj(<<<<<<"x">>, Num("2")>>, <<<<"y">>, Null>>>>)>>,
               <<<<"v">>, Arr(<<Num("1")>>)>>>>)                     \* {u: {x: 2, y: null}, v: [1]}
RecD  == Obj(<<<<<<"a", "b">>, Num("1")>>>>)                         \* {'a.b': 1}
RecNE == Obj(<<<<<<"a">>, Obj(<<>>)>>, <<<<"b">>, Num("1")>>>>)      \* {a: {}, b: 1}
RecL  == Obj(<<<<<<"a">>, Obj(<<<<<<"length">>, Num("1")>>>>)>>>>)   \* {a: {length: 1}}

ObjectsInputs(n) ==
    {Arr(e) : e \in SeqsUpTo({RecA, RecA2, RecN, RecM, RecM2, RecD, RecNE, RecL, RecE}, n)
                        \ {<<>>}}

ObjectsConfigs ==
    {[NoConfig EXCEPT !.fields = "all", !.method = m, !.line = l] :
        m \in {"new", "append"}, l \in BOOLEAN}

InitObjects ==
    /\ pc = "call"
    /\ NoCell
    /\ NoNode
    /\ NoMsg
    /\ NoAuth
    /\ op = "transform"
    /\ data \in ObjectsInputs(MaxItems)
    /\ values = NoValue
    /\ config = NoConfig
    /\ setConfig = NoConfig
    /\ majorDimension = ""
    /\ result = NoValue
    /\ error = ""
    /\ mem = NoMem

\* What transformToObjects leaves behind: t is what it did with the rows
\* after the first of the cells that transform returned, under that first
\* row as the fields.
ToObjects(t) ==
    /\ values' = result
    /\ setConfig' = config
    /\ op' = "transformToObjects"
    /\ result' = t.value
    /\ error' = t.error
    /\ UNCHANGED <<pc, data, config, majorDimension, mem>>
    /\ UNCHANGED <<cellVars, nodeVars, msgVars, authVars>>

\* The cells transform returned are read back as the repository's round
\* trip reads them: transformToObjects(values.slice(1), values[0]).
TransformToObjects ==
    /\ pc = "done"
    /\ op = "transform"
    /\ error = ""
    /\ Len(Elems(result)) >= 1
    /\ IsArray(Elems(result)[1])
    /\ ToObjects(transformToObjects(Arr(Tail(Elems(result))), Elems(result)[1]))

NextObjects ==
    \/ \E cfg \in ObjectsConfigs : Transform(cfg)
    \/ TransformToObjects

SpecObjects == InitObjects /\ [][NextObjects]_vars

ToObjectsDone == pc = "done" /\ op = "transformToObjects"

\* Two values are equal as toEqual has it: arrays element by element,
\* records field by field whatever the order of their fields.
RECURSIVE SameValue(_, _)
SameValue(a, b) ==
    IF IsArray(a) /\ IsArray(b)
    THEN /\ Len(Elems(a)) = Len(Elems(b))
         /\ \A i \in DOMAIN Elems(a) : SameValue(Elems(a)[i], Elems(b)[i])
    ELSE IF IsPlainObject(a) /\ IsPlainObject(b)
    THEN /\ KeySet(a) = KeySet(b)
         /\ \A k \in KeySet(a) : SameValue(ObjGet(a, k), ObjGet(b, k))
    ELSE a = b

\* No field of the record, or of a record in it, has a dot in its name.
RECURSIVE NoDotInNames(_)
NoDotInNames(v) ==
    IsPlainObject(v) =>
        \A i \in DOMAIN Elems(v) :
            Len(Elems(v)[i][1]) = 1 /\ NoDotInNames(Elems(v)[i][2])

\* No record inside the record is empty.
RECURSIVE NoEmptyNested(_)
NoEmptyNested(v) ==
    IsPlainObject(v) =>
        \A i \in DOMAIN Elems(v) :
            Elems(v)[i][2] # Obj(<<>>) /\ NoEmptyNested(Elems(v)[i][2])

\* The records of the array written flatten to one list of keys.
SameKeyList(e) ==
    \A i \in DOMAIN e : extractObjectValues(e[i]).keys = extractObjectValues(e[1]).keys

\* The round trip of C25 has been made on an array the claim is about.
RoundTripped ==
    /\ ToObjectsDone
    /\ RecordArrayInput
    /\ SameKeyList(Elems(data))
    /\ \A i \in DOMAIN Elems(data) :
          NoDotInNames(Elems(data)[i]) /\ NoEmptyNested(Elems(data)[i])
    /\ setConfig.fields = "all" /\ setConfig.line /\ setConfig.method = "new"

\* C25 as stated: for every non-empty array of records that share their
\* flattened key list, with no dot in a field name and no empty nested
\* record, encoded with fields 'all', the line header and the method new,
\* transformToObjects(rows 1..n, row 0) returns an array of records equal to
\* the original, nested records included.
C25_ObjectsRoundTrip ==
    RoundTripped => (error = "" /\ SameValue(result, data))

\* C25: the same, for arrays none of whose records is empty: the records of
\* an array of empty records come back as empty rows, since
\* transformToObjects returns the rows as they are when there is no field.
C25_ObjectsRoundTripNotEmpty ==
    (RoundTripped /\ \A i \in DOMAIN Elems(data) : Elems(data)[i] # Obj(<<>>))
        => (error = "" /\ SameValue(result, data))

\* Two records with a nested record of two fields have come back.
C25_Witness ==
    /\ RoundTripped
    /\ data = Arr(<<RecM, RecM2>>)
    /\ SameValue(result, data)
    /\ result # values

----------------------------------------------------------------------------
(* A get from the cache against the get that filled it *)

\* A get has called the remote service, was answered a grid with rows and has
\* left it under the save field of its range.
GetFilled ==
    /\ op = "get"
    /\ calls = <<"get">>
    /\ error = ""
    /\ HoldsGrid(saveLoc, saveFieldOf(range))

\* C26: a get served from the cache returns the same decoded value as the
\* fresh get that populated the cache: whatever the headers and the direction
\* of the node and whatever the grid fetched, the get that follows a get of
\* the same range by a node of the same config, and makes no call, returns
\* what that get returned.
C26_HitEqualsMiss ==
    [][(GetFilled /\ op' = "get" /\ range' = range /\ config' = config
                  /\ calls' = <<>>)
          => (error' = error /\ result' = result)]_vars

----------------------------------------------------------------------------
(* What a get returns against what the service holds for its range *)

\* What a get may return of the grids the remote service holds for the
\* range r of the spreadsheet id, decoded under cfg on either path of
\* queryGet.
OwnDecodes(id, r, cfg) ==
    {transformGetResponse(g, cfg, md).value :
        g \in Answers(id, r) \ {NoValue}, md \in {RequestedDimension(cfg), "false"}}

\* C27: a get for the spreadsheet S and the range R never outputs data that
\* was fetched from another spreadsheet or another range: whatever gets were
\* made before it on the same storage, the value a get sends on the success
\* output is the empty text of a range without values or is decoded from a
\* grid the remote service holds for exactly (S, R).
C27_OwnGrid ==
    (op = "get" /\ SentOn("success")) =>
        \/ result = Str(<<"">>)
        \/ result \in OwnDecodes(spreadsheetId, range, config)

----------------------------------------------------------------------------
(* The sends of a message *)

----------------------------------------------------------------------------
(* The status of the node against the output of the message *)

\* The state the status was last set to for the message.
LastStatus == status[Len(status)]

\* C29: the status of the node is set to SUCCESS for an input message only
\* if the message was sent on the success output: a message that was sent
\* on the error output never ends with the status SUCCESS.
C29_SuccessOnlyOnSuccessOutput ==
    (InputDone /\ LastStatus = "SUCCESS") => SentOn("success")

----------------------------------------------------------------------------
(* The data rows under the header row of an explicit field list *)

\* The records written, in the order of their rows: the elements of an
\* array, the values of a map in the order of its keys.
RecordsWritten ==
    IF IsArray(data) THEN Elems(data)
    ELSE [i \in DOMAIN ObjKeys(data) |-> ObjGet(data, ObjKeys(data)[i])]

\* The cells before the fields in a row: the label of a map's row when the
\* column header is set.
LabelCells == IF IsPlainObject(data) /\ config.column THEN 1 ELSE 0

\* The record has the field f, and the cell is its value for it.
IsValueOf(cell, rec, f) ==
    \E i \in DOMAIN FlatKeys(rec) : FlatKeys(rec)[i] = f /\ FlatValues(rec)[i] = cell

\* The row of a record lies under the header row: it is as long, and its
\* cell in the column of a field is the record's value for the field, when
\* the record has one.
UnderHeader(row, header, rec) ==
    /\ Len(row) = Len(header)
    /\ \A k \in DOMAIN config.selfields :
          LET j == k + LabelCells
          IN  /\ j \in DOMAIN header
              /\ header[j] = Str(config.selfields[k])
              /\ config.selfields[k] \in Range(FlatKeys(rec))
                    => (j \in DOMAIN row /\ IsValueOf(row[j], rec, config.selfields[k]))

\* C30: when records are encoded with an explicit field list and a header
\* row (line header set, method new), every data row has the same length as
\* the header row, and the value in column j of a data row is that record's
\* value for the field named in column j of the header row.
C30_RowsUnderHeader ==
    (WriteDone /\ (RecordArrayInput \/ RecordMapInput)
               /\ ExplicitFieldList /\ HeaderRowAsked) =>
        /\ error = ""
        /\ IsArray(result)
        /\ Len(Elems(result)) = Len(RecordsWritten) + 1
        /\ \A i \in DOMAIN RecordsWritten :
              UnderHeader(Elems(Elems(result)[i + 1]), Elems(Elems(result)[1]),
                          RecordsWritten[i])

====
